---- MODULE Spec2Model ----
(***************************************************************************)
(* Frame masking and batch processing pipeline of masquerade:              *)
(* server/services/videoProcessor.ts, server/services/frameExtractor.ts,   *)
(* server/storage.ts and the shared schema.                                *)
(*                                                                         *)
(* Numbers that are fractions in the program (normalized coordinates, the  *)
(* display scale, the transformation matrix) are exact rationals here:     *)
(* a numerator over a positive denominator.                                *)
(***************************************************************************)
EXTENDS Integers, Sequences, FiniteSets, TLC

(***************************************************************************)
(* Bounds of the model                                                     *)
(***************************************************************************)
\* largest number of frames of a DICOM job and of images of an image job
MaxFrames == 9
\* largest number of frames of a video job (the job whose background
\* extraction can overlap its processing)
MaxVideoFrames == 3
\* largest number of frames of a job whose extraction or decoding goes wrong
MaxFaults == 1
\* native width and height of the regular frames of a job
FrameW == 2
FrameH == 2
\* width of an image whose size differs from the regular frames (height FrameH)
AltW == 3
\* side of the square placeholder image, scaled down from 512
PlaceholderSide == 4
\* a batch size a request asks for, besides the default
SmallBatch == 5
\* side of the square output size a request asks for
PresetSide == 4
\* largest magnitude of an absolute mask coordinate that is enumerated
MaxCoord == 3
\* largest frame side enumerated for the geometry step
MaxSide == 3
\* largest numerator of the display scale and of the display offsets
MaxPlace == 3

\* frames in a sub-batch masked on its own
MaxTasks == 3
\* worker threads of the pool
PoolSize == 2
\* tasks submitted to the pool
MaxPoolTasks == 4
\* worker threads that raise an error
MaxWorkerErrors == 1

\* 16-bit samples per DICOM frame
MaxSamples == 2

\* side of the canvas image of a raster payload
CanvasSide == 2

\* batch sizes and batch counts of the partition on its own
MaxBatchSize == 10
MaxBatches == 3
MaxPartitionFrames == 12

\* the letterboxed canvas of the raster placement check, and the largest
\* natural side of the image shown on it
LetterboxW == 4

LetterboxH == 2

MaxNatural == 2

\* frames per job when two jobs run through processFrame at the same time
MaxJobFrames == 2

\* frames and batch size of a whole processVideo run
MaxRunFrames == 6

MaxRunBatchSize == 3

(***************************************************************************)
(* Arithmetic helpers                                                      *)
(***************************************************************************)
Min(a, b) == IF a < b THEN a ELSE b

Max(a, b) == IF a > b THEN a ELSE b

\* JavaScript `v || d` on a number: 0 is falsy
OrDefault(v, d) == IF v = 0 THEN d ELSE v

\* Math.floor(n / d) for d > 0
FloorDiv(n, d) == n \div d

(***************************************************************************)
(* Buffers.  An encoded image (PNG/JPEG file content) is a record; Sharp   *)
(* can decode it iff valid.  Buffer.alloc(0) is EmptyBuffer.               *)
(***************************************************************************)
EmptyBuffer ==
  [valid |-> FALSE, format |-> "none", width |-> 0, height |-> 0,
   channels |-> 0, data |-> << >>, resized |-> FALSE, origin |-> -1]

\* buffer.length
BufferLength(b) == Len(b.data)

\* the pixel content of a decodable source image: byte k holds k (1-based),
\* so no source byte is 0 and every blackened byte is visible
SourcePixels(w, h, c) == [k \in 1..(w * h * c) |-> k]

\* the encoded image of source frame `origin` (origin is carried along so
\* that an output can be traced back to the frame it was made from)
SourceImage(origin, w, h, c) ==
  [valid |-> TRUE, format |-> "png", width |-> w, height |-> h,
   channels |-> c, data |-> SourcePixels(w, h, c), resized |-> FALSE,
   origin |-> origin]

\* a file whose content Sharp cannot decode
CorruptImage(origin) ==
  [valid |-> FALSE, format |-> "none", width |-> 0, height |-> 0,
   channels |-> 0, data |-> <<1>>, resized |-> FALSE, origin |-> origin]

(***************************************************************************)
(* Exact rationals [n, d] with d > 0                                       *)
(***************************************************************************)
RInt(k) == [n |-> k, d |-> 1]

RNeg(a) == [n |-> 0 - a.n, d |-> a.d]

RAdd(a, b) == [n |-> a.n * b.d + b.n * a.d, d |-> a.d * b.d]

RMul(a, b) == [n |-> a.n * b.n, d |-> a.d * b.d]

\* a / b for b # 0
RDiv(a, b) ==
  IF b.n > 0 THEN [n |-> a.n * b.d, d |-> a.d * b.n]
  ELSE [n |-> 0 - (a.n * b.d), d |-> 0 - (a.d * b.n)]

REq(a, b) == a.n * b.d = b.n * a.d

(***************************************************************************)
(* Mask data (shared schema, MaskData).  An absent optional object has     *)
(* present = FALSE; an absent optional number is 0.                        *)
(***************************************************************************)
NoDimensions == [present |-> FALSE, width |-> 0, height |-> 0]

NoDisplayInfo ==
  [present |-> FALSE, scale |-> RInt(1), offsetX |-> RInt(0), offsetY |-> RInt(0)]

\* the raster payload (canvasDataUrl): the canvas image it encodes, one
\* <<r, g, b, a>> per canvas pixel; valid = FALSE when it cannot be decoded
NoPayload ==
  [present |-> FALSE, valid |-> FALSE, width |-> 0, height |-> 0, data |-> << >>]

\* coordinates given as the object {x, y, width, height}
ObjectCoords(x, y, w, h) ==
  [isArray |-> FALSE, x |-> x, y |-> y, width |-> w, height |-> h, den |-> 1]

\* coordinates given as the legacy array [x, y, w, h] of fractions n/den
ArrayCoords(x, y, w, h, den) ==
  [isArray |-> TRUE, x |-> x, y |-> y, width |-> w, height |-> h, den |-> den]

\* a mask without raster payload and without display metadata
VectorMask(type, coordinates, opacity) ==
  [type |-> type, coordinates |-> coordinates, opacity |-> opacity,
   canvasDataUrl |-> NoPayload,
   canvasWidth |-> 0, canvasHeight |-> 0,
   originalCanvasDimensions |-> NoDimensions,
   imageDimensions |-> NoDimensions,
   imageDisplayInfo |-> NoDisplayInfo]

(***************************************************************************)
(* Coordinate Transform Engine                                             *)
(***************************************************************************)
\* mutation of calculateTransformationMatrix: the letterbox offset is not
\* rescaled into frame space
calculateTransformationMatrix_unscaledOffset(maskData, frameWidth, frameHeight) ==
  LET canvasWidth ==
        OrDefault(maskData.originalCanvasDimensions.width,
                  OrDefault(maskData.canvasWidth, frameWidth))
      canvasHeight ==
        OrDefault(maskData.originalCanvasDimensions.height,
                  OrDefault(maskData.canvasHeight, frameHeight))
      info == maskData.imageDisplayInfo
      dims == maskData.imageDimensions
  IN IF info.present /\ dims.present
     THEN LET displayedImageWidth == RMul(RInt(dims.width), info.scale)
              displayedImageHeight == RMul(RInt(dims.height), info.scale)
              scaleX == RDiv(RInt(frameWidth), displayedImageWidth)
              scaleY == RDiv(RInt(frameHeight), displayedImageHeight)
          IN [scaleX |-> scaleX, scaleY |-> scaleY,
              offsetX |-> RNeg(info.offsetX),
              offsetY |-> RNeg(info.offsetY)]
     ELSE [scaleX |-> RDiv(RInt(frameWidth), RInt(canvasWidth)),
           scaleY |-> RDiv(RInt(frameHeight), RInt(canvasHeight)),
           offsetX |-> RInt(0), offsetY |-> RInt(0)]

calculateTransformationMatrix(maskData, frameWidth, frameHeight) ==
  LET canvasWidth ==
        OrDefault(maskData.originalCanvasDimensions.width,
                  OrDefault(maskData.canvasWidth, frameWidth))
      canvasHeight ==
        OrDefault(maskData.originalCanvasDimensions.height,
                  OrDefault(maskData.canvasHeight, frameHeight))
      info == maskData.imageDisplayInfo
      dims == maskData.imageDimensions
  IN IF info.present /\ dims.present
     THEN LET displayedImageWidth == RMul(RInt(dims.width), info.scale)
              displayedImageHeight == RMul(RInt(dims.height), info.scale)
              scaleX == RDiv(RInt(frameWidth), displayedImageWidth)
              scaleY == RDiv(RInt(frameHeight), displayedImageHeight)
          IN [scaleX |-> scaleX, scaleY |-> scaleY,
              offsetX |-> RMul(RNeg(info.offsetX), scaleX),
              offsetY |-> RMul(RNeg(info.offsetY), scaleY)]
     ELSE [scaleX |-> RDiv(RInt(frameWidth), RInt(canvasWidth)),
           scaleY |-> RDiv(RInt(frameHeight), RInt(canvasHeight)),
           offsetX |-> RInt(0), offsetY |-> RInt(0)]

transformCoordinates(canvasX, canvasY, matrix) ==
  [x |-> RAdd(RMul(canvasX, matrix.scaleX), matrix.offsetX),
   y |-> RAdd(RMul(canvasY, matrix.scaleY), matrix.offsetY)]

(***************************************************************************)
(* Geometry validation of processFrame                                     *)
(***************************************************************************)
\* pixelCoords as first computed: the object as given, or the legacy array
\* scaled to the frame with 100 as the default width and height
initialPixelCoords(maskData, originalWidth, originalHeight) ==
  LET c == maskData.coordinates
  IN IF ~c.isArray
     THEN [x |-> c.x, y |-> c.y, width |-> c.width, height |-> c.height]
     ELSE [x |-> FloorDiv(c.x * originalWidth, c.den),
           y |-> FloorDiv(c.y * originalHeight, c.den),
           width |-> OrDefault(FloorDiv(c.width * originalWidth, c.den), 100),
           height |-> OrDefault(FloorDiv(c.height * originalHeight, c.den), 100)]

\* the clamp, entered only when the box leaves the frame on some side
validatePixelCoords(p, originalWidth, originalHeight) ==
  IF p.x < 0 \/ p.y < 0 \/ p.x + p.width > originalWidth
       \/ p.y + p.height > originalHeight
  THEN LET x == Max(0, Min(p.x, originalWidth - 1))
           y == Max(0, Min(p.y, originalHeight - 1))
       IN [x |-> x, y |-> y,
           width |-> Max(1, Min(p.width, originalWidth - x)),
           height |-> Max(1, Min(p.height, originalHeight - y))]
  ELSE p

(***************************************************************************)
(* Mask Rasterizer                                                         *)
(***************************************************************************)
Transparent == <<0, 0, 0, 0>>

\* Sharp resize with fit 'fill' of a raw image of pixels, sampled at the
\* source pixel under each target pixel
resizeFill(data, srcWidth, srcHeight, width, height) ==
  [i \in 1..(width * height) |->
     LET px == (i - 1) % width
         py == (i - 1) \div width
         sx == (px * srcWidth) \div width
         sy == (py * srcHeight) \div height
     IN data[sy * srcWidth + sx + 1]]

\* Math.round of a non-negative rational
RRound(a) == (2 * a.n + a.d) \div (2 * a.d)

\* raster-payload path: two-step (or direct) scaling of the canvas image to
\* the frame, then the red-marker classification; any error gives a fully
\* transparent buffer
createMaskFromBase64(canvasDataUrl, frameWidth, frameHeight, maskData) ==
  LET pixelCount == frameWidth * frameHeight
      fallbackBuffer == [i \in 1..pixelCount |-> Transparent]
      twoStep == maskData.imageDisplayInfo.present /\ maskData.imageDimensions.present
      displayedWidth ==
        RRound(RMul(RInt(maskData.imageDimensions.width), maskData.imageDisplayInfo.scale))
      displayedHeight ==
        RRound(RMul(RInt(maskData.imageDimensions.height), maskData.imageDisplayInfo.scale))
      intermediate ==
        resizeFill(canvasDataUrl.data, canvasDataUrl.width, canvasDataUrl.height,
                   displayedWidth, displayedHeight)
      maskRaw ==
        IF twoStep
        THEN resizeFill(intermediate, displayedWidth, displayedHeight,
                        frameWidth, frameHeight)
        ELSE resizeFill(canvasDataUrl.data, canvasDataUrl.width, canvasDataUrl.height,
                        frameWidth, frameHeight)
      detected(p) ==
        p[4] > 128 /\ p[1] > 150 /\ 2 * p[1] > 3 * p[2] /\ 2 * p[1] > 3 * p[3]
  IN IF ~canvasDataUrl.valid \/ (twoStep /\ (displayedWidth <= 0 \/ displayedHeight <= 0))
     THEN fallbackBuffer
     ELSE [i \in 1..pixelCount |->
             IF detected(maskRaw[i]) THEN <<255, 255, 255, 255>> ELSE Transparent]

\* Math.floor((opacity / 100) * 255)
maskOpacity(maskData) == FloorDiv(maskData.opacity * 255, 100)

\* vector rectangle: is pixel (px, py) inside the rasterized rectangle
rectangleCovers(maskData, width, height, px, py) ==
  LET c == maskData.coordinates
      invalid == c.x < 0 \/ c.x > c.den \/ c.y < 0 \/ c.y > c.den
                   \/ c.width <= 0 \/ c.height <= 0
      centerX == FloorDiv(width, 4)
      centerY == FloorDiv(height, 4)
      centerW == FloorDiv(width, 2)
      centerH == FloorDiv(height, 2)
      x == FloorDiv(c.x * width, c.den)
      y == FloorDiv(c.y * height, c.den)
      w == FloorDiv(c.width * width, c.den)
      h == FloorDiv(c.height * height, c.den)
  IN IF invalid
     THEN centerY <= py /\ py < centerY + centerH /\ py < height
            /\ centerX <= px /\ px < centerX + centerW /\ px < width
     ELSE y <= py /\ py < y + h /\ py < height
            /\ x <= px /\ px < x + w /\ px < width

\* vector circle: array [cx, cy, radius] or the object's inscribed circle;
\* all lengths over the common denominator dd
circleCovers(maskData, width, height, px, py) ==
  LET c == maskData.coordinates
      dd == IF c.isArray THEN c.den ELSE 2
      cxPct == IF c.isArray THEN c.x ELSE 2 * c.x + c.width
      cyPct == IF c.isArray THEN c.y ELSE 2 * c.y + c.height
      radiusPct == IF c.isArray THEN c.width ELSE Min(c.width, c.height)
      cx == cxPct * width
      cy == cyPct * height
      radius == radiusPct * Min(width, height)
      dx == px * dd - cx
      dy == py * dd - cy
  IN radius >= 0 /\ dx * dx + dy * dy <= radius * radius

\* the vector shapes of createMaskRgbaBuffer
vectorMaskBuffer(maskData, width, height) ==
  LET opacity == maskOpacity(maskData)
      opaque == <<255, 255, 255, opacity>>
  IN [i \in 1..(width * height) |->
        LET px == (i - 1) % width
            py == (i - 1) \div width
        IN CASE maskData.type = "rectangle" ->
                  IF rectangleCovers(maskData, width, height, px, py)
                  THEN opaque ELSE Transparent
             [] maskData.type = "circle" ->
                  IF circleCovers(maskData, width, height, px, py)
                  THEN opaque ELSE Transparent
             [] OTHER -> opaque]

\* mutation of createMaskRgbaBuffer: an undecodable payload falls back to
\* the vector shape
createMaskRgbaBuffer_vectorFallback(maskData, width, height) ==
  IF maskData.canvasDataUrl.present /\ maskData.canvasDataUrl.valid
  THEN createMaskFromBase64(maskData.canvasDataUrl, width, height, maskData)
  ELSE vectorMaskBuffer(maskData, width, height)

\* the payload, when there is one, else the vector shape
createMaskRgbaBuffer(maskData, width, height) ==
  IF maskData.canvasDataUrl.present
  THEN createMaskFromBase64(maskData.canvasDataUrl, width, height, maskData)
  ELSE vectorMaskBuffer(maskData, width, height)

(***************************************************************************)
(* Frame Masking Operator                                                  *)
(***************************************************************************)
\* the compositing loop: for every pixel i < pixelCount with non-zero mask
\* alpha, bytes i*channels, i*channels+1 and i*channels+2 of the frame are
\* set to 0 (a write past the end of the buffer is dropped)
applyMaskToPixels(framePixels, maskRgba, pixelCount, imageChannels) ==
  LET maskPixels == Len(maskRgba)
      \* byte j (1-based) is written by the loop: it is byte i*channels + k of
      \* a pixel i < pixelCount with non-zero mask alpha, for a k in 0..2
      written(j) ==
        \E k \in 0..2 :
          LET offset == j - 1 - k
              i == offset \div imageChannels
          IN /\ offset >= 0
             /\ offset % imageChannels = 0
             /\ i < pixelCount
             /\ i < maskPixels
             /\ maskRgba[i + 1][4] > 0
  IN [j \in 1..Len(framePixels) |-> IF written(j) THEN 0 ELSE framePixels[j]]

\* Sharp(buffer).metadata() and .raw() of a decodable image
frameMetadataOf(frameBuffer) ==
  [width |-> OrDefault(frameBuffer.width, 1920),
   height |-> OrDefault(frameBuffer.height, 1080),
   channels |-> frameBuffer.channels]

\* Sharp(pixels, {raw}) followed by the optional resize and the encoder:
\* the encoded image keeps the masked pixels it was made from
encodeOutput(origin, pixels, width, height, channels, resize, outputSize, format) ==
  [valid |-> TRUE, format |-> format, origin |-> origin,
   width |-> IF resize THEN outputSize.width ELSE width,
   height |-> IF resize THEN outputSize.height ELSE height,
   channels |-> channels,
   data |-> SubSeq(pixels, 1, width * height * channels),
   resized |-> resize]

failedResult(task, error) ==
  [success |-> FALSE, processedBuffer |-> EmptyBuffer, error |-> error,
   frameNumber |-> task.frameNumber]

\* processFrameBatch: one mask and one geometry (those of the first frame)
\* for the whole sub-batch; any throw fails every frame of the sub-batch
processFrameBatch(tasks) ==
  LET n == Len(tasks)
      decodable == \A i \in 1..n : tasks[i].frameBuffer.valid
      first == frameMetadataOf(tasks[1].frameBuffer)
      volumeWidth == first.width
      volumeHeight == first.height
      imageChannels == first.channels
      pixelsPerFrame == volumeWidth * volumeHeight
      maskRgba == createMaskRgbaBuffer(tasks[1].maskData, volumeWidth, volumeHeight)
      rawFits(i) ==
        Len(tasks[i].frameBuffer.data) >= pixelsPerFrame * imageChannels
      result(i) ==
        LET task == tasks[i]
            outputSize == task.outputSize
            resize == outputSize.width > 0 /\ outputSize.height > 0
                        /\ (outputSize.width # volumeWidth
                              \/ outputSize.height # volumeHeight)
        IN [success |-> TRUE,
            processedBuffer |->
              encodeOutput(task.frameBuffer.origin,
                           applyMaskToPixels(task.frameBuffer.data, maskRgba,
                                             pixelsPerFrame, imageChannels),
                           volumeWidth, volumeHeight, imageChannels,
                           resize, outputSize, "jpeg"),
            error |-> "none",
            frameNumber |-> task.frameNumber]
  IN IF ~decodable
     THEN [i \in 1..n |-> failedResult(tasks[i], "Input buffer contains unsupported image format")]
     ELSE IF \E i \in 1..n : ~rawFits(i)
     THEN [i \in 1..n |-> failedResult(tasks[i], "memory area too small")]
     ELSE [i \in 1..n |-> result(i)]

\* processFrame: the single-frame path; returns the FrameResult and the new
\* value of the process-wide referenceDimensions
processFrame(task, referenceDimensions) ==
  LET frameBuffer == task.frameBuffer
      meta == frameMetadataOf(frameBuffer)
      originalWidth == meta.width
      originalHeight == meta.height
      mismatch == task.frameNumber # 0 /\ referenceDimensions.present
                    /\ (referenceDimensions.width # originalWidth
                          \/ referenceDimensions.height # originalHeight)
      maskRgba == createMaskRgbaBuffer(task.maskData, originalWidth, originalHeight)
      imageChannels == meta.channels
      totalPixels == Len(frameBuffer.data) \div imageChannels
      resize == task.outputSettings.size # "original"
                  /\ task.outputSize.width > 0 /\ task.outputSize.height > 0
  IN IF ~frameBuffer.valid
     THEN [result |-> failedResult(task, "Input buffer contains unsupported image format"),
           referenceDimensions |-> referenceDimensions]
     ELSE IF mismatch
     THEN [result |-> failedResult(task, "Frame dimension mismatch!"),
           referenceDimensions |-> referenceDimensions]
     ELSE [result |->
             [success |-> TRUE,
              processedBuffer |->
                encodeOutput(frameBuffer.origin,
                             applyMaskToPixels(frameBuffer.data, maskRgba,
                                               totalPixels, imageChannels),
                             originalWidth, originalHeight, imageChannels,
                             resize, task.outputSize, "png"),
              error |-> "none",
              frameNumber |-> task.frameNumber],
           referenceDimensions |->
             IF task.frameNumber = 0
             THEN [present |-> TRUE, width |-> originalWidth, height |-> originalHeight]
             ELSE referenceDimensions]

(***************************************************************************)
(* Program constants                                                       *)
(***************************************************************************)
VOLUME_BATCH_SIZE == 8

DefaultBatchSize == 12

BackgroundBatchSize == 15

DefaultOutputSide == 512

(***************************************************************************)
(* State                                                                   *)
(***************************************************************************)
VARIABLES
  \* the job's inputs, fixed for a run
  sourceKind,          \* "video" (decoded by ffmpeg), "dicom", "images"
  totalFrames,         \* metadata.totalFrames / imageFiles.length
  faults,              \* frame index -> "ok", "bad" or "alt" (see sourceFrame)
  maskData,
  outputSettings,
  \* Job record (storage.videoJobs)
  jobStatus,
  jobError,
  \* ProcessingProgress store and the events emitted on the socket
  progress,
  emitted,
  lastEmitted,
  \* processVideo / processImages
  pvPc,
  pvError,
  batches,
  batchPc,
  frameBuffers,
  volumeStart,
  batchResults,
  completedFrames,
  processedFrames,
  frameBatches,
  \* processImages
  imageVolumeStart,
  processedImages,
  processedCount,
  \* startBackgroundFrameExtraction
  bgPc,
  bgBatchStart,
  extractedFrames,
  \* process-wide state
  referenceDimensions,
  \* one sub-batch / one frame / one geometry / one matrix under study
  unitPc,
  tasks,
  volumeResults,
  frameSize,
  pixelCoords,
  matrix,
  \* MaskWorkerPool, its worker threads and its callers' promises
  pool,
  \* a parsed DICOM dataset and the frame decoded from it
  dataset,
  decoded,
  \* the opacity buffer rasterized for the mask under study
  maskBuffer

jobVars == <<sourceKind, totalFrames, faults, maskData, outputSettings>>

progressVars == <<progress, emitted, lastEmitted>>

storeVars == <<jobStatus, jobError, progressVars>>

pvVars == <<pvPc, pvError, batches, batchPc, frameBuffers, volumeStart,
            batchResults, completedFrames, processedFrames, frameBatches>>

imageVars == <<imageVolumeStart, processedImages, processedCount>>

bgVars == <<bgPc, bgBatchStart, extractedFrames>>

unitVars == <<unitPc, tasks, volumeResults, frameSize, pixelCoords, matrix>>

pureVars == <<dataset, decoded, maskBuffer>>

vars == <<jobVars, storeVars, pvVars, imageVars, bgVars, referenceDimensions, unitVars, pool, pureVars>>

(***************************************************************************)
(* Job Store and Progress Channel                                          *)
(***************************************************************************)
\* a Partial<ProcessingProgress>: an absent string is "-", an absent number
\* is -1
ProgressUpdate(stage, percent, currentFrame, total, errorMessage, status) ==
  [stage |-> stage, progress |-> percent, currentFrame |-> currentFrame,
   totalFrames |-> total, errorMessage |-> errorMessage, status |-> status]

\* the record updateProcessingProgress starts from when none is stored
DefaultProgress ==
  [stage |-> "uploading", progress |-> RInt(0), currentFrame |-> 0,
   totalFrames |-> 0, errorMessage |-> "-", status |-> "-"]

\* MemStorage.updateProcessingProgress: { ...existing, ...progress }
mergeProgress(existing, p) ==
  [stage |-> IF p.stage = "-" THEN existing.stage ELSE p.stage,
   progress |-> IF p.progress.n < 0 THEN existing.progress ELSE p.progress,
   currentFrame |-> IF p.currentFrame < 0 THEN existing.currentFrame ELSE p.currentFrame,
   totalFrames |-> IF p.totalFrames < 0 THEN existing.totalFrames ELSE p.totalFrames,
   errorMessage |-> IF p.errorMessage = "-" THEN existing.errorMessage ELSE p.errorMessage,
   status |-> IF p.status = "-" THEN existing.status ELSE p.status]

\* mutation of updateProgress: stored, never emitted
updateProgress_storeOnly(p) ==
  /\ progress' = mergeProgress(progress, p)
  /\ UNCHANGED <<emitted, lastEmitted>>

\* updateProgress: store, then emit.  emitted collects the events sent so
\* far, lastEmitted is the latest of them
updateProgress(p) ==
  /\ progress' = mergeProgress(progress, p)
  /\ emitted' = emitted \cup {p}
  /\ lastEmitted' = p

(***************************************************************************)
(* Frame Source                                                            *)
(***************************************************************************)
\* createPlaceholderImage: a flat mid-gray RGB square
PlaceholderImage(origin) ==
  [valid |-> TRUE, format |-> "png", width |-> PlaceholderSide,
   height |-> PlaceholderSide, channels |-> 3,
   data |-> [k \in 1..(PlaceholderSide * PlaceholderSide * 3) |-> 128],
   resized |-> FALSE, origin |-> origin]

\* what decoding frame f of the source gives.
\*   video : an RGB frame; "bad" = the frame file is not there to be read
\*   dicom : a grayscale frame; "bad" = the frame cannot be extracted and the
\*           fallback image (here the placeholder) is used instead
\*   images: an RGB image; "alt" = an image of another size; "corrupt" = a
\*           file whose content cannot be decoded; "bad" = a file
\*           getImageAsBuffer cannot read
sourceFrame(kind, fault, f) ==
  CASE kind = "video" -> SourceImage(f, FrameW, FrameH, 3)
    [] kind = "dicom" ->
         IF fault = "bad" THEN PlaceholderImage(f)
         ELSE SourceImage(f, FrameW, FrameH, 1)
    [] OTHER ->
         IF fault = "alt" THEN SourceImage(f, AltW, FrameH, 3)
         ELSE IF fault \in {"bad", "corrupt"} THEN CorruptImage(f)
         ELSE SourceImage(f, FrameW, FrameH, 3)

\* mutation of readableFrames: a frame that cannot be decoded is skipped
\* whatever the source
RECURSIVE readableFrames_skipUndecodable(_, _, _, _)
readableFrames_skipUndecodable(kind, flt, startFrame, endFrame) ==
  IF startFrame > endFrame THEN << >>
  ELSE LET rest == readableFrames_skipUndecodable(kind, flt, startFrame + 1, endFrame)
       IN IF flt[startFrame] = "bad"
          THEN rest
          ELSE <<startFrame>> \o rest

\* the frames startFrame..endFrame in order, as a sequence of frame indexes
RECURSIVE readableFrames(_, _, _, _)
readableFrames(kind, flt, startFrame, endFrame) ==
  IF startFrame > endFrame THEN << >>
  ELSE LET rest == readableFrames(kind, flt, startFrame + 1, endFrame)
       IN IF kind = "video" /\ flt[startFrame] = "bad"
          THEN rest
          ELSE <<startFrame>> \o rest

\* extractFrameBatch: DICOM pushes one buffer per requested index (the
\* fallback image when a frame fails); video pushes the frame files that
\* can be read and skips the others
extractFrameBatch(kind, flt, startFrame, endFrame) ==
  LET ids == readableFrames(kind, flt, startFrame, endFrame)
  IN [i \in 1..Len(ids) |-> sourceFrame(kind, flt[ids[i]], ids[i])]

(***************************************************************************)
(* Batch Scheduler                                                         *)
(***************************************************************************)
\* mutation of createFrameBatches: the end of a range is start + batchSize
createFrameBatches_overlapping(total, batchSize) ==
  LET count == (total + batchSize - 1) \div batchSize
  IN [k \in 1..count |->
        [start |-> (k - 1) * batchSize,
         end |-> Min((k - 1) * batchSize + batchSize, total - 1)]]

createFrameBatches(total, batchSize) ==
  LET count == (total + batchSize - 1) \div batchSize
  IN [k \in 1..count |->
        [start |-> (k - 1) * batchSize,
         end |-> Min((k - 1) * batchSize + batchSize - 1, total - 1)]]

\* the output size policy of processBatchesInParallel; jobWidth/jobHeight
\* are the stored job's dimensions
outputSizeOf(settings, jobWidth, jobHeight) ==
  IF settings.width # 0 /\ settings.height # 0
  THEN [width |-> settings.width, height |-> settings.height]
  ELSE IF settings.size = "custom"
  THEN [width |-> OrDefault(settings.customWidth, DefaultOutputSide),
        height |-> OrDefault(settings.customHeight, DefaultOutputSide)]
  ELSE IF settings.size = "original"
  THEN [width |-> OrDefault(jobWidth, 632), height |-> OrDefault(jobHeight, 1080)]
  ELSE IF settings.size = "preset"
  THEN [width |-> settings.presetWidth, height |-> settings.presetHeight]
  ELSE [width |-> DefaultOutputSide, height |-> DefaultOutputSide]

\* the output width and height generateMetadataCSV writes in every row
csvOutputSize(settings) ==
  IF settings.width # 0 /\ settings.height # 0
  THEN [width |-> settings.width, height |-> settings.height]
  ELSE IF settings.size = "preset"
  THEN [width |-> settings.presetWidth, height |-> settings.presetHeight]
  ELSE [width |-> DefaultOutputSide, height |-> DefaultOutputSide]

\* mutation of volumeTasks: the frame number leaves out the batch's start
volumeTasks_noBatchStart(buffers, vStart, firstFrameNumber, mask, settings, outputSize) ==
  LET vEnd == Min(vStart + VOLUME_BATCH_SIZE, Len(buffers))
  IN [i \in 1..(vEnd - vStart) |->
        [frameBuffer |-> buffers[vStart + i],
         maskData |-> mask,
         outputSize |-> outputSize,
         outputSettings |-> settings,
         frameNumber |-> vStart + (i - 1)]]

\* the tasks of the sub-batch of `buffers` that starts at offset vStart;
\* firstFrameNumber is batch.start
volumeTasks(buffers, vStart, firstFrameNumber, mask, settings, outputSize) ==
  LET vEnd == Min(vStart + VOLUME_BATCH_SIZE, Len(buffers))
  IN [i \in 1..(vEnd - vStart) |->
        [frameBuffer |-> buffers[vStart + i],
         maskData |-> mask,
         outputSize |-> outputSize,
         outputSettings |-> settings,
         frameNumber |-> firstFrameNumber + vStart + (i - 1)]]

\* successful results keep their buffer, failed ones get an empty buffer
toProcessedFrame(result) ==
  [frameNumber |-> result.frameNumber,
   buffer |-> IF result.success THEN result.processedBuffer ELSE EmptyBuffer]

RECURSIVE flatten(_)
flatten(seqs) ==
  IF seqs = << >> THEN << >> ELSE Head(seqs) \o flatten(Tail(seqs))

\* stable insertion of e into a list sorted by frameNumber
RECURSIVE insertByFrameNumber(_, _)
insertByFrameNumber(e, sorted) ==
  IF sorted = << >> THEN <<e>>
  ELSE IF e.frameNumber < Head(sorted).frameNumber
  THEN <<e>> \o sorted
  ELSE <<Head(sorted)>> \o insertByFrameNumber(e, Tail(sorted))

\* Array.prototype.sort((a, b) => a.frameNumber - b.frameNumber), stable
RECURSIVE sortByFrameNumber(_)
sortByFrameNumber(list) ==
  IF list = << >> THEN << >>
  ELSE insertByFrameNumber(list[Len(list)],
                           sortByFrameNumber(SubSeq(list, 1, Len(list) - 1)))

(***************************************************************************)
(* Job Store: frame batch records                                          *)
(***************************************************************************)
\* MemStorage.updateFrameBatch: no record under that id, no change
updateFrameBatch(records, id, status) ==
  IF id \in DOMAIN records THEN [records EXCEPT ![id] = status] ELSE records

\* the id processBatchesInParallel passes: the text "[object Object]" of a
\* batch object, which is the id of no record (ids are 1, 2, ... here)
batchRecordId(batch) == 0

(***************************************************************************)
(* The process route and processVideo                                      *)
(***************************************************************************)
\* POST /api/videos/:jobId/process: only from uploaded or ready
StartProcessing ==
  /\ pvPc = "idle"
  /\ jobStatus \in {"uploaded", "ready"}
  /\ pvPc' = "start"
  /\ UNCHANGED <<jobVars, storeVars, pvError, batches, batchPc, frameBuffers,
                 volumeStart, batchResults, completedFrames, processedFrames,
                 frameBatches, bgVars, referenceDimensions, imageVars, unitVars, pool, pureVars>>

PvExtracting ==
  /\ pvPc = "start"
  /\ sourceKind # "images"
  /\ updateProgress(ProgressUpdate("extracting", RInt(5), -1, -1, "-", "-"))
  /\ pvPc' = "metadata"
  /\ UNCHANGED <<jobVars, jobStatus, jobError, pvError, batches, batchPc,
                 frameBuffers, volumeStart, batchResults, completedFrames,
                 processedFrames, frameBatches, bgVars, referenceDimensions,
                 imageVars, unitVars, pool, pureVars>>

\* extractVideoMetadata succeeded; the job is updated with status processing
PvMetadata ==
  /\ pvPc = "metadata"
  /\ jobStatus' = "processing"
  /\ pvPc' = "announce"
  /\ UNCHANGED <<jobVars, jobError, progressVars, pvError, batches,
                 batchPc, frameBuffers, volumeStart, batchResults,
                 completedFrames, processedFrames, frameBatches, bgVars,
                 referenceDimensions, imageVars, unitVars, pool, pureVars>>

\* extractVideoMetadata threw
PvMetadataError ==
  /\ pvPc = "metadata"
  /\ pvError' = "Failed to extract video metadata"
  /\ pvPc' = "catch"
  /\ UNCHANGED <<jobVars, storeVars, batches, batchPc, frameBuffers,
                 volumeStart, batchResults, completedFrames, processedFrames,
                 frameBatches, bgVars, referenceDimensions, imageVars, unitVars, pool, pureVars>>

PvAnnounce ==
  /\ pvPc = "announce"
  /\ updateProgress(ProgressUpdate("processing", RInt(10), -1, totalFrames, "-", "-"))
  /\ pvPc' = "createBatches"
  /\ UNCHANGED <<jobVars, jobStatus, jobError, pvError, batches, batchPc,
                 frameBuffers, volumeStart, batchResults, completedFrames,
                 processedFrames, frameBatches, bgVars, referenceDimensions,
                 imageVars, unitVars, pool, pureVars>>

\* the batches and their pending records are created and every batch starts
\* its extraction (batches.map(async ...))
PvCreateBatches ==
  /\ pvPc = "createBatches"
  /\ LET bs == createFrameBatches(totalFrames,
                                  OrDefault(outputSettings.batchSize, DefaultBatchSize))
     IN /\ batches' = bs
        /\ frameBatches' = [k \in 1..Len(bs) |-> "pending"]
        /\ batchPc' = [k \in 1..Len(bs) |-> "extract"]
        /\ frameBuffers' = [k \in 1..Len(bs) |-> << >>]
        /\ volumeStart' = [k \in 1..Len(bs) |-> 0]
        /\ batchResults' = [k \in 1..Len(bs) |-> << >>]
  /\ completedFrames' = 0
  /\ pvPc' = "awaitBatches"
  /\ UNCHANGED <<jobVars, storeVars, pvError, processedFrames, bgVars,
                 referenceDimensions, imageVars, unitVars, pool, pureVars>>

\* extractFrameBatch of batch b resolved
BatchExtract(b) ==
  /\ batchPc[b] = "extract"
  /\ LET buffers == extractFrameBatch(sourceKind, faults, batches[b].start, batches[b].end)
     IN /\ frameBuffers' = [frameBuffers EXCEPT ![b] = buffers]
        /\ batchPc' = [batchPc EXCEPT ![b] =
                         IF Len(buffers) = 0 THEN "record" ELSE "volume"]
  /\ UNCHANGED <<jobVars, storeVars, pvPc, pvError, batches, volumeStart,
                 batchResults, completedFrames, processedFrames, frameBatches,
                 bgVars, referenceDimensions, imageVars, unitVars, pool, pureVars>>

\* extractFrameBatch of batch b rejected (the decoder reported an error)
BatchExtractError(b) ==
  /\ batchPc[b] = "extract"
  /\ sourceKind = "video"
  /\ batchPc' = [batchPc EXCEPT ![b] = "rejected"]
  /\ UNCHANGED <<jobVars, storeVars, pvPc, pvError, batches, frameBuffers,
                 volumeStart, batchResults, completedFrames, processedFrames,
                 frameBatches, bgVars, referenceDimensions, imageVars, unitVars, pool, pureVars>>

\* mutation of finishVolume: each batch counts its own frames only
finishVolume_perBatchCount(b) ==
  /\ LET outputSize == outputSizeOf(outputSettings, FrameW, FrameH)
         vt == volumeTasks(frameBuffers[b], volumeStart[b],
                           batches[b].start, maskData,
                           outputSettings, outputSize)
         results == processFrameBatch(vt)
         done == Len(batchResults[b]) + Len(results)
         percent == RAdd(RInt(10), [n |-> done * 80, d |-> totalFrames])
         capped == IF percent.n > 90 * percent.d THEN RInt(90) ELSE percent
         next == volumeStart[b] + VOLUME_BATCH_SIZE
     IN IF outputSize.width <= 0 \/ outputSize.height <= 0
        THEN /\ batchPc' = [batchPc EXCEPT ![b] = "rejected"]
             /\ UNCHANGED <<progressVars, completedFrames, batchResults,
                            volumeStart>>
        ELSE /\ completedFrames' = done
             /\ updateProgress(ProgressUpdate("-", capped, done, -1, "-", "-"))
             /\ batchResults' = [batchResults EXCEPT ![b] = @ \o results]
             /\ volumeStart' = [volumeStart EXCEPT ![b] = next]
             /\ batchPc' = [batchPc EXCEPT ![b] =
                              IF next < Len(frameBuffers[b]) THEN "volume" ELSE "record"]
  /\ UNCHANGED <<jobVars, jobStatus, jobError, pvPc, pvError, batches,
                 frameBuffers, processedFrames, frameBatches, bgVars,
                 referenceDimensions, imageVars, unitVars, pool, pureVars>>

\* the rest of one loop iteration of batch b once the frames of the sub-batch
\* are decoded: masked and encoded, counted, progress updated, results
\* appended
finishVolume(b) ==
  /\ LET outputSize == outputSizeOf(outputSettings, FrameW, FrameH)
         vt == volumeTasks(frameBuffers[b], volumeStart[b],
                           batches[b].start, maskData,
                           outputSettings, outputSize)
         results == processFrameBatch(vt)
         done == completedFrames + Len(results)
         percent == RAdd(RInt(10), [n |-> done * 80, d |-> totalFrames])
         capped == IF percent.n > 90 * percent.d THEN RInt(90) ELSE percent
         next == volumeStart[b] + VOLUME_BATCH_SIZE
     IN IF outputSize.width <= 0 \/ outputSize.height <= 0
        THEN /\ batchPc' = [batchPc EXCEPT ![b] = "rejected"]
             /\ UNCHANGED <<progressVars, completedFrames, batchResults,
                            volumeStart>>
        ELSE /\ completedFrames' = done
             /\ updateProgress(ProgressUpdate("-", capped, done, -1, "-", "-"))
             /\ batchResults' = [batchResults EXCEPT ![b] = @ \o results]
             /\ volumeStart' = [volumeStart EXCEPT ![b] = next]
             /\ batchPc' = [batchPc EXCEPT ![b] =
                              IF next < Len(frameBuffers[b]) THEN "volume" ELSE "record"]
  /\ UNCHANGED <<jobVars, jobStatus, jobError, pvPc, pvError, batches,
                 frameBuffers, processedFrames, frameBatches, bgVars,
                 referenceDimensions, imageVars, unitVars, pool, pureVars>>

\* one volumetric sub-batch of batch b: masked, counted, progress updated,
\* results appended
BatchVolume(b) ==
  /\ batchPc[b] = "volume"
  /\ finishVolume(b)

\* storage.updateFrameBatch(..., {status: 'completed'}) at the end of batch b
BatchRecord(b) ==
  /\ batchPc[b] = "record"
  /\ frameBatches' = updateFrameBatch(frameBatches, batchRecordId(batches[b]), "completed")
  /\ batchPc' = [batchPc EXCEPT ![b] = "done"]
  /\ UNCHANGED <<jobVars, storeVars, pvPc, pvError, batches, frameBuffers,
                 volumeStart, batchResults, completedFrames, processedFrames,
                 bgVars, referenceDimensions, imageVars, unitVars, pool, pureVars>>

\* Promise.all resolved: flatten in batch order, placeholders for failed
\* frames, sort by frame number
PvBatchesDone ==
  /\ pvPc = "awaitBatches"
  /\ \A b \in DOMAIN batchPc : batchPc[b] = "done"
  /\ LET all == flatten(batchResults)
     IN processedFrames' =
          sortByFrameNumber([i \in 1..Len(all) |-> toProcessedFrame(all[i])])
  /\ pvPc' = "exporting"
  /\ UNCHANGED <<jobVars, storeVars, pvError, batches, batchPc, frameBuffers,
                 volumeStart, batchResults, completedFrames, frameBatches,
                 bgVars, referenceDimensions, imageVars, unitVars, pool, pureVars>>

\* Promise.all rejected as soon as one batch rejected
PvBatchRejected ==
  /\ pvPc = "awaitBatches"
  /\ \E b \in DOMAIN batchPc : batchPc[b] = "rejected"
  /\ pvError' = "Failed to extract frame batch"
  /\ pvPc' = "catch"
  /\ UNCHANGED <<jobVars, storeVars, batches, batchPc, frameBuffers,
                 volumeStart, batchResults, completedFrames, processedFrames,
                 frameBatches, bgVars, referenceDimensions, imageVars, unitVars, pool, pureVars>>

PvExporting ==
  /\ pvPc = "exporting"
  /\ updateProgress(ProgressUpdate("exporting", RInt(90), -1, -1, "-", "-"))
  /\ pvPc' = "zip"
  /\ UNCHANGED <<jobVars, jobStatus, jobError, pvError, batches, batchPc,
                 frameBuffers, volumeStart, batchResults, completedFrames,
                 processedFrames, frameBatches, bgVars, referenceDimensions,
                 imageVars, unitVars, pool, pureVars>>

\* the archive was written; the job is updated with status completed
PvZip ==
  /\ pvPc = "zip"
  /\ jobStatus' = "completed"
  /\ pvPc' = "completedProgress"
  /\ UNCHANGED <<jobVars, jobError, progressVars, pvError, batches,
                 batchPc, frameBuffers, volumeStart, batchResults,
                 completedFrames, processedFrames, frameBatches, bgVars,
                 referenceDimensions, imageVars, unitVars, pool, pureVars>>

\* the archive stream reported an error
PvZipError ==
  /\ pvPc = "zip"
  /\ pvError' = "Archive error"
  /\ pvPc' = "catch"
  /\ UNCHANGED <<jobVars, storeVars, batches, batchPc, frameBuffers,
                 volumeStart, batchResults, completedFrames, processedFrames,
                 frameBatches, bgVars, referenceDimensions, imageVars, unitVars, pool, pureVars>>

PvCompleted ==
  /\ pvPc = "completedProgress"
  /\ updateProgress(ProgressUpdate("completed", RInt(100), -1, -1, "-", "-"))
  /\ pvPc' = "done"
  /\ UNCHANGED <<jobVars, jobStatus, jobError, pvError, batches, batchPc,
                 frameBuffers, volumeStart, batchResults, completedFrames,
                 processedFrames, frameBatches, bgVars, referenceDimensions,
                 imageVars, unitVars, pool, pureVars>>

\* catch of processVideo / processImages, first await: the job is failed
PvCatchStatus ==
  /\ pvPc = "catch"
  /\ jobStatus' = "failed"
  /\ jobError' = pvError
  /\ pvPc' = "catchProgress"
  /\ UNCHANGED <<jobVars, progressVars, pvError, batches, batchPc,
                 frameBuffers, volumeStart, batchResults, completedFrames,
                 processedFrames, frameBatches, bgVars, referenceDimensions,
                 imageVars, unitVars, pool, pureVars>>

\* catch, second await: the failure is stored and emitted, then rethrown
PvCatchProgress ==
  /\ pvPc = "catchProgress"
  /\ updateProgress(ProgressUpdate("failed", RInt(0), -1, -1, pvError, "-"))
  /\ pvPc' = "thrown"
  /\ UNCHANGED <<jobVars, jobStatus, jobError, pvError, batches, batchPc,
                 frameBuffers, volumeStart, batchResults, completedFrames,
                 processedFrames, frameBatches, bgVars, referenceDimensions,
                 imageVars, unitVars, pool, pureVars>>

(***************************************************************************)
(* processImages.  Its export, completion and catch steps are those of     *)
(* processVideo (PvExporting, PvZip, PvZipError, PvCompleted,              *)
(* PvCatchStatus, PvCatchProgress).                                        *)
(***************************************************************************)
\* the output size policy of processImages; first is the size of the first
\* image as getImageDimensions reports it (0 x 0 when it cannot be read)
imageOutputSizeOf(settings, first) ==
  IF settings.width # 0 /\ settings.height # 0
  THEN [width |-> settings.width, height |-> settings.height]
  ELSE IF settings.size = "custom"
  THEN [width |-> OrDefault(settings.customWidth, DefaultOutputSide),
        height |-> OrDefault(settings.customHeight, DefaultOutputSide)]
  ELSE IF settings.size = "original"
  THEN [width |-> first.width, height |-> first.height]
  ELSE IF settings.size = "preset"
  THEN [width |-> settings.presetWidth, height |-> settings.presetHeight]
  ELSE [width |-> DefaultOutputSide, height |-> DefaultOutputSide]

\* 10 + (done / total) * 80
imagePercent(done, total) == RAdd(RInt(10), [n |-> done * 80, d |-> total])

ImProcessing ==
  /\ pvPc = "start"
  /\ sourceKind = "images"
  /\ updateProgress(ProgressUpdate("processing", RInt(5), -1, -1, "-", "-"))
  /\ pvPc' = "job"
  /\ UNCHANGED <<jobVars, jobStatus, jobError, pvError, batches, batchPc,
                 frameBuffers, volumeStart, batchResults, completedFrames,
                 processedFrames, frameBatches, imageVars, bgVars,
                 referenceDimensions, unitVars, pool, pureVars>>

\* the job was read, its temp folder recreated, the job updated with status
\* processing
ImJob ==
  /\ pvPc = "job"
  /\ jobStatus' = "processing"
  /\ pvPc' = "announce10"
  /\ UNCHANGED <<jobVars, jobError, progressVars, pvError, batches, batchPc,
                 frameBuffers, volumeStart, batchResults, completedFrames,
                 processedFrames, frameBatches, imageVars, bgVars,
                 referenceDimensions, unitVars, pool, pureVars>>

\* recreating the temp folder threw
ImTempFolderError ==
  /\ pvPc = "job"
  /\ pvError' = "Failed to create temp folder"
  /\ pvPc' = "catch"
  /\ UNCHANGED <<jobVars, storeVars, batches, batchPc, frameBuffers,
                 volumeStart, batchResults, completedFrames, processedFrames,
                 frameBatches, imageVars, bgVars, referenceDimensions, unitVars, pool, pureVars>>

ImAnnounce ==
  /\ pvPc = "announce10"
  /\ updateProgress(ProgressUpdate("processing", RInt(10), -1, totalFrames, "-", "-"))
  /\ pvPc' = "volume"
  /\ UNCHANGED <<jobVars, jobStatus, jobError, pvError, batches, batchPc,
                 frameBuffers, volumeStart, batchResults, completedFrames,
                 processedFrames, frameBatches, imageVars, bgVars,
                 referenceDimensions, unitVars, pool, pureVars>>

\* entry of processedImages for image i
processedImage(i, buffer) == [imageNumber |-> i, buffer |-> buffer]

\* the sequential per-image fallback over images i .. vEnd-1.  acc carries
\* referenceDimensions, the list, the count and the progress updates made.
\* An image that cannot be read, or whose processFrame result is a failure,
\* gets no entry.
RECURSIVE imageFallback(_, _, _, _, _, _, _)
imageFallback(i, vEnd, flt, mask, settings, outputSize, acc) ==
  IF i >= vEnd THEN acc
  ELSE IF flt[i] = "bad"
  THEN imageFallback(i + 1, vEnd, flt, mask, settings, outputSize, acc)
  ELSE LET task == [frameBuffer |-> sourceFrame("images", flt[i], i),
                    maskData |-> mask, outputSize |-> outputSize,
                    outputSettings |-> settings, frameNumber |-> i]
           r == processFrame(task, acc.referenceDimensions)
           good == r.result.success /\ BufferLength(r.result.processedBuffer) > 0
       IN imageFallback(i + 1, vEnd, flt, mask, settings, outputSize,
            [referenceDimensions |-> r.referenceDimensions,
             images |-> IF good
                        THEN Append(acc.images, processedImage(i, r.result.processedBuffer))
                        ELSE acc.images,
             count |-> IF good THEN acc.count + 1 ELSE acc.count,
             events |-> Append(acc.events,
                          ProgressUpdate("processing", imagePercent(i + 1, Cardinality(DOMAIN flt)),
                                         i + 1, -1, "-", "-"))])

\* the entries the parallel path appends for a sub-batch's results
RECURSIVE imageEntries(_, _, _)
imageEntries(results, vStart, i) ==
  IF i > Len(results) THEN << >>
  ELSE LET r == results[i]
           good == r.success /\ BufferLength(r.processedBuffer) > 0
       IN <<processedImage(vStart + i - 1,
                           IF good THEN r.processedBuffer ELSE EmptyBuffer)>>
            \o imageEntries(results, vStart, i + 1)

RECURSIVE mergeAll(_, _)
mergeAll(existing, events) ==
  IF events = << >> THEN existing
  ELSE mergeAll(mergeProgress(existing, Head(events)), Tail(events))

\* one volumetric sub-batch of images: the parallel path, or, when loading
\* the sub-batch threw, the sequential fallback
ImVolume ==
  /\ pvPc = "volume"
  /\ imageVolumeStart < totalFrames
  /\ LET vStart == imageVolumeStart
         vEnd == Min(vStart + VOLUME_BATCH_SIZE, totalFrames)
         first == sourceFrame("images", faults[0], 0)
         firstImageDimensions ==
           IF first.valid THEN [width |-> first.width, height |-> first.height]
           ELSE [width |-> 0, height |-> 0]
         outputSize == imageOutputSizeOf(outputSettings, firstImageDimensions)
         loadThrows == \E i \in vStart..(vEnd - 1) : faults[i] = "bad"
         buffers == [i \in 1..vEnd |-> sourceFrame("images", faults[i - 1], i - 1)]
         vt == volumeTasks(buffers, vStart, 0, maskData, outputSettings, outputSize)
         results == processFrameBatch(vt)
         entries == imageEntries(results, vStart, 1)
         successes == Cardinality({i \in 1..Len(results) :
                         results[i].success
                           /\ BufferLength(results[i].processedBuffer) > 0})
         fb == imageFallback(vStart, vEnd, faults, maskData, outputSettings, outputSize,
                 [referenceDimensions |-> referenceDimensions, images |-> processedImages,
                  count |-> processedCount, events |-> << >>])
     IN /\ imageVolumeStart' = vStart + VOLUME_BATCH_SIZE
        /\ IF ~loadThrows
           THEN /\ processedImages' = processedImages \o entries
                /\ processedCount' = processedCount + successes
                /\ updateProgress(ProgressUpdate("processing",
                                                 imagePercent(vEnd, totalFrames),
                                                 vEnd, -1, "-", "-"))
                /\ UNCHANGED referenceDimensions
           ELSE /\ processedImages' = fb.images
                /\ processedCount' = fb.count
                /\ referenceDimensions' = fb.referenceDimensions
                /\ progress' = mergeAll(progress, fb.events)
                /\ emitted' = emitted \cup {fb.events[k] : k \in 1..Len(fb.events)}
                /\ lastEmitted' = IF fb.events = << >> THEN lastEmitted
                                  ELSE fb.events[Len(fb.events)]
  /\ UNCHANGED <<jobVars, jobStatus, jobError, pvPc, pvError, batches, batchPc,
                 frameBuffers, volumeStart, batchResults, completedFrames,
                 processedFrames, frameBatches, bgVars, unitVars, pool, pureVars>>

\* the loop over the sub-batches is over
ImLoopDone ==
  /\ pvPc = "volume"
  /\ imageVolumeStart >= totalFrames
  /\ pvPc' = "exporting"
  /\ UNCHANGED <<jobVars, storeVars, pvError, batches, batchPc, frameBuffers,
                 volumeStart, batchResults, completedFrames, processedFrames,
                 frameBatches, imageVars, bgVars, referenceDimensions, unitVars, pool, pureVars>>

(***************************************************************************)
(* startBackgroundFrameExtraction                                          *)
(***************************************************************************)
BgStart ==
  /\ bgPc = "scheduled"
  /\ jobStatus' = "extracting"
  /\ bgPc' = "announce"
  /\ UNCHANGED <<jobVars, jobError, progressVars, pvVars, bgBatchStart,
                 extractedFrames, referenceDimensions, imageVars, unitVars, pool, pureVars>>

BgAnnounce ==
  /\ bgPc = "announce"
  /\ updateProgress(ProgressUpdate("extracting", RInt(-1), 0, totalFrames, "-",
                                   "Background frame extraction in progress"))
  /\ bgPc' = "batch"
  /\ UNCHANGED <<jobVars, jobStatus, jobError, pvVars, bgBatchStart,
                 extractedFrames, referenceDimensions, imageVars, unitVars, pool, pureVars>>

\* one batch of the extraction loop resolved
BgBatch ==
  /\ bgPc = "batch"
  /\ bgBatchStart < totalFrames
  /\ LET end == Min(bgBatchStart + BackgroundBatchSize - 1, totalFrames - 1)
         batchFrames == extractFrameBatch(sourceKind, faults, bgBatchStart, end)
         count == extractedFrames + Len(batchFrames)
     IN /\ extractedFrames' = count
        /\ updateProgress(ProgressUpdate("extracting", RInt(-1), count, totalFrames,
                                         "-", "Extracted"))
  /\ bgBatchStart' = bgBatchStart + BackgroundBatchSize
  /\ UNCHANGED <<jobVars, jobStatus, jobError, pvVars, bgPc,
                 referenceDimensions, imageVars, unitVars, pool, pureVars>>

\* one batch of the extraction loop rejected: logged, the loop goes on
BgBatchError ==
  /\ bgPc = "batch"
  /\ bgBatchStart < totalFrames
  /\ sourceKind = "video"
  /\ bgBatchStart' = bgBatchStart + BackgroundBatchSize
  /\ UNCHANGED <<jobVars, storeVars, pvVars, bgPc, extractedFrames,
                 referenceDimensions, imageVars, unitVars, pool, pureVars>>

\* the loop is over: the job is updated with status ready
BgReady ==
  /\ bgPc = "batch"
  /\ bgBatchStart >= totalFrames
  /\ jobStatus' = "ready"
  /\ bgPc' = "readyProgress"
  /\ UNCHANGED <<jobVars, jobError, progressVars, pvVars, bgBatchStart,
                 extractedFrames, referenceDimensions, imageVars, unitVars, pool, pureVars>>

BgReadyProgress ==
  /\ bgPc = "readyProgress"
  /\ updateProgress(ProgressUpdate("ready", RInt(-1), extractedFrames, totalFrames,
                                   "-", "Ready for masking"))
  /\ bgPc' = "done"
  /\ UNCHANGED <<jobVars, jobStatus, jobError, pvVars, bgBatchStart,
                 extractedFrames, referenceDimensions, imageVars, unitVars, pool, pureVars>>

\* a Job Store update of the extraction threw (the store is a database)
BgStoreError ==
  /\ \/ bgPc = "scheduled"
     \/ bgPc = "batch" /\ bgBatchStart >= totalFrames
  /\ bgPc' = "catch"
  /\ UNCHANGED <<jobVars, storeVars, pvVars, bgBatchStart, extractedFrames,
                 referenceDimensions, imageVars, unitVars, pool, pureVars>>

\* catch of startBackgroundFrameExtraction, first await
BgCatchStatus ==
  /\ bgPc = "catch"
  /\ jobStatus' = "error"
  /\ bgPc' = "catchProgress"
  /\ UNCHANGED <<jobVars, jobError, progressVars, pvVars, bgBatchStart,
                 extractedFrames, referenceDimensions, imageVars, unitVars, pool, pureVars>>

\* catch, second await
BgCatchProgress ==
  /\ bgPc = "catchProgress"
  /\ updateProgress(ProgressUpdate("error", RInt(-1), -1, -1, "-",
                                   "Background extraction failed"))
  /\ bgPc' = "caught"
  /\ UNCHANGED <<jobVars, jobStatus, jobError, pvVars, bgBatchStart,
                 extractedFrames, referenceDimensions, imageVars, unitVars, pool, pureVars>>

(***************************************************************************)
(* DICOM decoding (frameExtractor).  A dataset attribute is a record        *)
(* [present, value]; window bounds are kept doubled (min2 = 2 * windowMin) *)
(* so that center - width / 2 stays an integer                             *)
(***************************************************************************)
Absent == [present |-> FALSE, value |-> 0]

Attribute(v) == [present |-> TRUE, value |-> v]

NoDataset ==
  [WindowCenter |-> Absent, WindowWidth |-> Absent, Modality |-> "",
   PixelRepresentation |-> 0, PixelData |-> << >>]

NotDecoded == [path |-> "none", window |-> [min2 |-> 0, max2 |-> 0], pixels |-> << >>]

\* JavaScript truthiness of a numeric attribute: undefined, null and 0 are falsy
truthy(a) == a.present /\ a.value # 0

\* Math.round of n / d for n >= 0, d > 0
roundDiv(n, d) == (2 * n + d) \div (2 * d)

RECURSIVE minOf(_)
minOf(samples) ==
  IF Len(samples) = 1 THEN samples[1] ELSE Min(samples[1], minOf(Tail(samples)))

RECURSIVE maxOf(_)
maxOf(samples) ==
  IF Len(samples) = 1 THEN samples[1] ELSE Max(samples[1], maxOf(Tail(samples)))

explicitWindow(ds) ==
  [min2 |-> 2 * ds.WindowCenter.value - ds.WindowWidth.value,
   max2 |-> 2 * ds.WindowCenter.value + ds.WindowWidth.value]

autoWindow(ds) == [min2 |-> 2 * minOf(ds.PixelData), max2 |-> 2 * maxOf(ds.PixelData)]

defaultWindow(center, width) == [min2 |-> 2 * center - width, max2 |-> 2 * center + width]

\* value <= windowMin -> 0, value >= windowMax -> 255, else
\* Math.round(((value - windowMin) / (windowMax - windowMin)) * 255)
windowByte(value, w) ==
  IF 2 * value <= w.min2 THEN 0
  ELSE IF 2 * value >= w.max2 THEN 255
  ELSE roundDiv((2 * value - w.min2) * 255, w.max2 - w.min2)

\* extractDicomImage: the window of a 16-bit frame
imageWindow(ds) ==
  IF ds.WindowCenter.present /\ ds.WindowWidth.present THEN explicitWindow(ds)
  ELSE IF ds.Modality = "CT" THEN defaultWindow(40, 400)
  ELSE IF ds.Modality \in {"CR", "DX"} THEN defaultWindow(1000, 2000)
  ELSE autoWindow(ds)

\* extractDicomImage, 16-bit branch
extractDicomImage(ds) ==
  LET w == imageWindow(ds)
      signed(v) == IF ds.PixelRepresentation = 1 /\ v > 32767 THEN v - 65536 ELSE v
  IN [path |-> "image", window |-> w,
      pixels |-> [i \in 1..Len(ds.PixelData) |->
                    IF w.max2 - w.min2 > 0 THEN windowByte(signed(ds.PixelData[i]), w)
                    ELSE 128]]

\* processDicomPixelDataHelper: the window of a 16-bit frame
helperWindow(ds) ==
  IF truthy(ds.WindowCenter) /\ truthy(ds.WindowWidth) THEN explicitWindow(ds)
  ELSE autoWindow(ds)

\* processDicomPixelDataHelper, 16-bit branch.  Without a window the bytes
\* are Math.round(((v - min) / range) * 255); a range of 0 gives NaN, stored
\* as 0
processDicomPixelDataHelper(ds) ==
  LET w == helperWindow(ds)
  IN [path |-> "frame", window |-> w,
      pixels |-> [i \in 1..Len(ds.PixelData) |->
                    IF truthy(ds.WindowCenter) /\ truthy(ds.WindowWidth)
                    THEN windowByte(ds.PixelData[i], w)
                    ELSE IF w.max2 = w.min2 THEN 0
                    ELSE roundDiv((2 * ds.PixelData[i] - w.min2) * 255,
                                  w.max2 - w.min2)]]

(***************************************************************************)
(* MaskWorkerPool.  pool holds the fields of the pool object               *)
(* (taskQueue, busyWorkers, the 'message' listeners of each Worker), the   *)
(* state of each worker thread and its message port, and the promise of    *)
(* every caller.  Tasks are named 1, 2, ... in submission order; task t    *)
(* carries frameNumber t - 1.                                              *)
(***************************************************************************)
PoolWorkers == 0..(PoolSize - 1)

PoolTasks == 1..MaxPoolTasks

WorkerTask(t) == [frameNumber |-> t - 1]

\* what the worker thread posts back for a task
WorkerResult(task, success) == [frameNumber |-> task.frameNumber, success |-> success]

\* new MaskWorkerPool(): the workers are started, nothing is queued
newMaskWorkerPool ==
  [taskQueue |-> << >>,
   busyWorkers |-> {},
   \* per worker: the tasks whose handleMessage listener is registered
   handlers |-> [w \in PoolWorkers |-> << >>],
   \* per worker thread: running or exited, the tasks posted to it and not
   \* yet taken, the results it posted and the main thread has not yet seen,
   \* an 'error' event not yet seen by the main thread
   alive |-> [w \in PoolWorkers |-> TRUE],
   inbox |-> [w \in PoolWorkers |-> << >>],
   outbox |-> [w \in PoolWorkers |-> << >>],
   errorPending |-> [w \in PoolWorkers |-> FALSE],
   \* per task: calls of its resolve/reject, the frame numbers delivered
   settleCalls |-> [t \in PoolTasks |-> 0],
   delivered |-> [t \in PoolTasks |-> {}],
   \* bookkeeping: the worker each task was dispatched to (-1: none), the
   \* order of dispatch, tasks submitted, worker errors raised
   dispatchedTo |-> [t \in PoolTasks |-> -1],
   dispatchOrder |-> << >>,
   submitted |-> 0,
   workerErrors |-> 0,
   \* terminate(): open, terminating, terminated; the tasks that were
   \* dispatched and unsettled when it was called
   state |-> "open",
   inFlightAtTerminate |-> {}]

\* workers.findIndex(index not in busyWorkers): the lowest free index, -1
\* when there is none
availableWorkerIndex(p) ==
  IF PoolWorkers \ p.busyWorkers = {} THEN -1
  ELSE CHOOSE w \in PoolWorkers \ p.busyWorkers :
         \A v \in PoolWorkers \ p.busyWorkers : w <= v

\* processNextTask: the head of the queue goes to the available worker; a
\* message posted to a worker thread that has exited is dropped
processNextTask(p) ==
  LET w == availableWorkerIndex(p)
      t == Head(p.taskQueue)
  IN IF p.taskQueue = << >> \/ w = -1 THEN p
     ELSE [p EXCEPT
             !.taskQueue = Tail(@),
             !.busyWorkers = @ \cup {w},
             !.handlers[w] = Append(@, t),
             !.inbox[w] = IF p.alive[w] THEN Append(@, t) ELSE @,
             !.dispatchedTo[t] = w,
             !.dispatchOrder = Append(@, t)]

(***************************************************************************)
(* Jobs                                                                    *)
(***************************************************************************)
SourceKinds == {"video", "dicom", "images"}

FaultKinds(kind) == IF kind = "images" THEN {"bad", "alt", "corrupt"} ELSE {"bad"}

\* at most MaxFaults frames of the job are faulty
FaultAssignments(kind, total) ==
  UNION {{[f \in 0..(total - 1) |-> IF f \in S THEN g[f] ELSE "ok"] :
            g \in [S -> FaultKinds(kind)]} :
         S \in {T \in SUBSET (0..(total - 1)) : Cardinality(T) <= MaxFaults}}

\* size "preset" stands for a size text "<presetWidth>x<presetHeight>"
OutputSettings(size, presetSide, format, batchSize) ==
  [size |-> size, width |-> 0, height |-> 0, customWidth |-> 0,
   customHeight |-> 0, presetWidth |-> presetSide, presetHeight |-> presetSide,
   format |-> format, batchSize |-> batchSize, aspectRatioMode |-> "letterbox",
   includeMetadata |-> TRUE]

JobOutputSettings ==
  {OutputSettings("original", 0, "png", 0),
   OutputSettings("preset", PresetSide, "jpg", SmallBatch)}

JobMasks == {VectorMask("rectangle", ArrayCoords(0, 0, 2, 2, 4), 75)}

\* the status a job is created with by the upload routes
createdStatus(kind) ==
  CASE kind = "video" -> "uploaded"
    [] kind = "dicom" -> "extracting"
    [] OTHER -> "ready"

UnitIdle ==
  /\ unitPc = "none"
  /\ tasks = << >>
  /\ volumeResults = << >>
  /\ frameSize = [width |-> 0, height |-> 0]
  /\ pixelCoords = [x |-> 0, y |-> 0, width |-> 0, height |-> 0]
  /\ matrix = [scaleX |-> RInt(1), scaleY |-> RInt(1),
               offsetX |-> RInt(0), offsetY |-> RInt(0)]

PipelineIdle ==
  /\ jobError = "none"
  /\ progress = DefaultProgress
  /\ emitted = {}
  /\ lastEmitted = DefaultProgress
  /\ pvPc = "idle"
  /\ pvError = "none"
  /\ batches = << >>
  /\ batchPc = << >>
  /\ frameBuffers = << >>
  /\ volumeStart = << >>
  /\ batchResults = << >>
  /\ completedFrames = 0
  /\ processedFrames = << >>
  /\ frameBatches = << >>
  /\ imageVolumeStart = 0
  /\ processedImages = << >>
  /\ processedCount = 0
  /\ bgBatchStart = 0
  /\ extractedFrames = 0
  /\ referenceDimensions = NoDimensions
  /\ pool = newMaskWorkerPool
  /\ dataset = NoDataset
  /\ decoded = NotDecoded
  /\ maskBuffer = << >>

Init ==
  /\ sourceKind \in SourceKinds
  /\ totalFrames \in 1..(IF sourceKind = "video" THEN MaxVideoFrames ELSE MaxFrames)
  /\ faults \in FaultAssignments(sourceKind, totalFrames)
  /\ maskData \in JobMasks
  /\ outputSettings \in JobOutputSettings
  /\ jobStatus = createdStatus(sourceKind)
  /\ bgPc = IF sourceKind = "images" THEN "none" ELSE "scheduled"
  /\ PipelineIdle
  /\ UnitIdle

Next ==
  \/ StartProcessing
  \/ PvExtracting
  \/ PvMetadata
  \/ PvMetadataError
  \/ PvAnnounce
  \/ PvCreateBatches
  \/ \E b \in DOMAIN batchPc : BatchExtract(b)
  \/ \E b \in DOMAIN batchPc : BatchExtractError(b)
  \/ \E b \in DOMAIN batchPc : BatchVolume(b)
  \/ \E b \in DOMAIN batchPc : BatchRecord(b)
  \/ PvBatchesDone
  \/ PvBatchRejected
  \/ PvExporting
  \/ PvZip
  \/ PvZipError
  \/ PvCompleted
  \/ PvCatchStatus
  \/ PvCatchProgress
  \/ ImProcessing
  \/ ImJob
  \/ ImTempFolderError
  \/ ImAnnounce
  \/ ImVolume
  \/ ImLoopDone
  \/ BgStart
  \/ BgAnnounce
  \/ BgBatch
  \/ BgBatchError
  \/ BgReady
  \/ BgReadyProgress
  \/ BgStoreError
  \/ BgCatchStatus
  \/ BgCatchProgress

Spec == Init /\ [][Next]_vars

(***************************************************************************)
(* The coordinate transform on its own: a display placement and a frame    *)
(* size are drawn, the matrix is computed.                                 *)
(***************************************************************************)
\* job and pipeline variables of a run that only exercises one operation
UnitJob ==
  /\ sourceKind = "images"
  /\ totalFrames = 1
  /\ faults = [f \in 0..0 |-> "ok"]
  /\ outputSettings = OutputSettings("original", 0, "png", 0)
  /\ jobStatus = "ready"
  /\ bgPc = "none"
  /\ PipelineIdle

UnitFrozen ==
  UNCHANGED <<jobVars, storeVars, pvVars, imageVars, bgVars, pool, pureVars>>

\* scale > 0 (the canvas sends imageObj.scaleX || 1), offsets >= 0
Placements ==
  {[present |-> TRUE, scale |-> [n |-> sn, d |-> sd],
    offsetX |-> RInt(ox), offsetY |-> RInt(oy)] :
     sn \in 1..MaxPlace, sd \in 1..MaxPlace, ox \in 0..MaxPlace, oy \in 0..MaxPlace}

PlacedMask(info, naturalWidth, naturalHeight) ==
  [VectorMask("rectangle", ArrayCoords(0, 0, 1, 1, 1), 75) EXCEPT
     !.imageDisplayInfo = info,
     !.imageDimensions = [present |-> TRUE, width |-> naturalWidth,
                          height |-> naturalHeight]]

InitMatrix ==
  /\ UnitJob
  /\ unitPc = "placement"
  /\ \E info \in Placements, nw \in 1..MaxPlace, nh \in 1..MaxPlace :
       maskData = PlacedMask(info, nw, nh)
  /\ frameSize \in [width : 1..MaxSide, height : 1..MaxSide]
  /\ tasks = << >>
  /\ volumeResults = << >>
  /\ pixelCoords = [x |-> 0, y |-> 0, width |-> 0, height |-> 0]
  /\ matrix = [scaleX |-> RInt(1), scaleY |-> RInt(1),
               offsetX |-> RInt(0), offsetY |-> RInt(0)]

ComputeMatrix ==
  /\ unitPc = "placement"
  /\ matrix' = calculateTransformationMatrix(maskData, frameSize.width, frameSize.height)
  /\ unitPc' = "matrix"
  /\ UnitFrozen
  /\ UNCHANGED <<referenceDimensions, tasks, volumeResults, frameSize, pixelCoords>>

NextMatrix == ComputeMatrix

SpecMatrix == InitMatrix /\ [][NextMatrix]_vars

(***************************************************************************)
(* The geometry validation of processFrame on its own                      *)
(***************************************************************************)
InitGeom ==
  /\ UnitJob
  /\ unitPc = "rectangle"
  /\ \E x \in (0 - MaxCoord)..MaxCoord, y \in (0 - MaxCoord)..MaxCoord,
        w \in (0 - MaxCoord)..MaxCoord, h \in (0 - MaxCoord)..MaxCoord :
       maskData = VectorMask("rectangle", ObjectCoords(x, y, w, h), 75)
  /\ frameSize \in [width : 1..MaxSide, height : 1..MaxSide]
  /\ tasks = << >>
  /\ volumeResults = << >>
  /\ pixelCoords = [x |-> 0, y |-> 0, width |-> 0, height |-> 0]
  /\ matrix = [scaleX |-> RInt(1), scaleY |-> RInt(1),
               offsetX |-> RInt(0), offsetY |-> RInt(0)]

ValidateGeometry ==
  /\ unitPc = "rectangle"
  /\ pixelCoords' = validatePixelCoords(
                      initialPixelCoords(maskData, frameSize.width, frameSize.height),
                      frameSize.width, frameSize.height)
  /\ unitPc' = "validated"
  /\ UnitFrozen
  /\ UNCHANGED <<referenceDimensions, tasks, volumeResults, frameSize, matrix>>

NextGeom == ValidateGeometry

SpecGeom == InitGeom /\ [][NextGeom]_vars

(***************************************************************************)
(* Masking one sub-batch on its own: through processFrameBatch, or frame   *)
(* by frame through processFrame                                           *)
(***************************************************************************)
\* rectangles {x, y, width, height} in pixels that lie inside a frame of
\* MaxSide x MaxSide, the normalized legacy array, and a mask of no known
\* type
UnitMasks ==
  {VectorMask("rectangle", ObjectCoords(x, y, w, h), 75) :
     x \in 0..(MaxSide - 1), y \in 0..(MaxSide - 1),
     w \in 1..MaxSide, h \in 1..MaxSide}
  \cup {VectorMask("rectangle", ArrayCoords(1, 0, 2, 3, 3), 75),
        VectorMask("freeform", ArrayCoords(0, 0, 0, 0, 1), 0)}

FrameMasks ==
  {m \in UnitMasks :
     m.coordinates.isArray
       \/ (m.coordinates.x + m.coordinates.width <= MaxSide
             /\ m.coordinates.y + m.coordinates.height <= MaxSide)}

unitTask(frameBuffer, mask, frameNumber) ==
  [frameBuffer |-> frameBuffer, maskData |-> mask,
   outputSize |-> [width |-> MaxSide, height |-> MaxSide],
   outputSettings |-> OutputSettings("original", 0, "png", 0),
   frameNumber |-> frameNumber]

InitFrame ==
  /\ UnitJob
  /\ unitPc = "tasks"
  /\ maskData \in FrameMasks
  /\ \E channels \in {1, 3, 4}, n \in 1..MaxTasks :
       \E corrupt \in 0..n :
         tasks = [i \in 1..n |->
                    unitTask(IF i = corrupt THEN CorruptImage(i - 1)
                             ELSE SourceImage(i - 1, MaxSide, MaxSide, channels),
                             maskData, i - 1)]
  /\ frameSize = [width |-> MaxSide, height |-> MaxSide]
  /\ volumeResults = << >>
  /\ pixelCoords = [x |-> 0, y |-> 0, width |-> 0, height |-> 0]
  /\ matrix = [scaleX |-> RInt(1), scaleY |-> RInt(1),
               offsetX |-> RInt(0), offsetY |-> RInt(0)]

\* the sub-batch goes through processFrameBatch
MaskSubBatch ==
  /\ unitPc = "tasks"
  /\ volumeResults' = processFrameBatch(tasks)
  /\ unitPc' = "batch"
  /\ UnitFrozen
  /\ UNCHANGED <<referenceDimensions, tasks, frameSize, pixelCoords, matrix>>

\* the next frame of the sub-batch goes through processFrame
MaskSingleFrame ==
  /\ unitPc \in {"tasks", "frames"}
  /\ Len(volumeResults) < Len(tasks)
  /\ LET r == processFrame(tasks[Len(volumeResults) + 1], referenceDimensions)
     IN /\ volumeResults' = Append(volumeResults, r.result)
        /\ referenceDimensions' = r.referenceDimensions
  /\ unitPc' = "frames"
  /\ UnitFrozen
  /\ UNCHANGED <<tasks, frameSize, pixelCoords, matrix>>

NextFrame == MaskSubBatch \/ MaskSingleFrame

SpecFrame == InitFrame /\ [][NextFrame]_vars

(***************************************************************************)
(* Two jobs in one process: their processFrame calls arrive interleaved,   *)
(* each job's frames in order.  jobId records which job a call belongs to; *)
(* processFrame does not receive it.                                       *)
(***************************************************************************)
JobIds == {"A", "B"}

FrameSides == {MaxSide - 1, MaxSide}

\* the arrival orders: at most MaxJobFrames calls of each job
CallOrders ==
  {o \in UNION {[1..n -> JobIds] : n \in 1..(2 * MaxJobFrames)} :
     \A id \in JobIds : Cardinality({i \in DOMAIN o : o[i] = id}) <= MaxJobFrames}

InitTwoJobs ==
  /\ UnitJob
  /\ unitPc = "tasks"
  /\ maskData = VectorMask("rectangle", ObjectCoords(0, 0, 1, 1), 75)
  /\ \E order \in CallOrders,
        side \in [JobIds -> [0..(MaxJobFrames - 1) -> FrameSides]] :
       tasks = [i \in DOMAIN order |->
                  LET frameNumber ==
                        Cardinality({j \in 1..(i - 1) : order[j] = order[i]})
                      s == side[order[i]][frameNumber]
                  IN [frameBuffer |-> SourceImage(frameNumber, s, s, 3),
                      maskData |-> maskData,
                      outputSize |-> [width |-> s, height |-> s],
                      outputSettings |-> OutputSettings("original", 0, "png", 0),
                      frameNumber |-> frameNumber,
                      jobId |-> order[i]]]
  /\ frameSize = [width |-> MaxSide, height |-> MaxSide]
  /\ volumeResults = << >>
  /\ pixelCoords = [x |-> 0, y |-> 0, width |-> 0, height |-> 0]
  /\ matrix = [scaleX |-> RInt(1), scaleY |-> RInt(1),
               offsetX |-> RInt(0), offsetY |-> RInt(0)]

NextTwoJobs == MaskSingleFrame

SpecTwoJobs == InitTwoJobs /\ [][NextTwoJobs]_vars

(***************************************************************************)
(* The batches of processBatchesInParallel with the decode loop of         *)
(* processFrameBatch as a step of its own: all batch closures are started  *)
(* by batches.map and interleave at their awaits                           *)
(***************************************************************************)
InitFlight ==
  /\ sourceKind = "video"
  /\ totalFrames \in 1..MaxFrames
  /\ faults = [i \in 0..(totalFrames - 1) |-> "none"]
  /\ maskData \in JobMasks
  /\ outputSettings \in JobOutputSettings
  /\ jobStatus = "processing"
  /\ bgPc = "done"
  /\ PipelineIdle
  /\ UnitIdle

\* processVideo up to the call of processBatchesInParallel
FlightCreateBatches ==
  /\ pvPc = "idle"
  /\ LET bs == createFrameBatches(totalFrames,
                                  OrDefault(outputSettings.batchSize, DefaultBatchSize))
     IN /\ batches' = bs
        /\ frameBatches' = [k \in 1..Len(bs) |-> "pending"]
        /\ batchPc' = [k \in 1..Len(bs) |-> "extract"]
        /\ frameBuffers' = [k \in 1..Len(bs) |-> << >>]
        /\ volumeStart' = [k \in 1..Len(bs) |-> 0]
        /\ batchResults' = [k \in 1..Len(bs) |-> << >>]
  /\ pvPc' = "awaitBatches"
  /\ UNCHANGED <<jobVars, storeVars, pvError, completedFrames, processedFrames,
                 bgVars, referenceDimensions, imageVars, unitVars, pool, pureVars>>

\* step 1 of processFrameBatch for the sub-batch of batch b: every frame of
\* the sub-batch is decoded to raw pixels
FlightDecode(b) ==
  /\ batchPc[b] = "volume"
  /\ batchPc' = [batchPc EXCEPT ![b] = "decoded"]
  /\ UNCHANGED <<jobVars, storeVars, pvPc, pvError, batches, frameBuffers,
                 volumeStart, batchResults, completedFrames, processedFrames,
                 frameBatches, bgVars, referenceDimensions, imageVars, unitVars, pool, pureVars>>

\* steps 2 to 4 of processFrameBatch and the rest of the loop iteration
FlightMask(b) ==
  /\ batchPc[b] = "decoded"
  /\ finishVolume(b)

NextFlight ==
  \/ FlightCreateBatches
  \/ \E b \in DOMAIN batchPc : BatchExtract(b)
  \/ \E b \in DOMAIN batchPc : FlightDecode(b)
  \/ \E b \in DOMAIN batchPc : FlightMask(b)
  \/ \E b \in DOMAIN batchPc : BatchRecord(b)
  \/ PvBatchesDone

SpecFlight == InitFlight /\ [][NextFlight]_vars

\* the raw frames batch b holds between the decode loop and the return of
\* processFrameBatch
decodedFrames(b) ==
  IF batchPc[b] = "decoded"
  THEN Min(VOLUME_BATCH_SIZE, Len(frameBuffers[b]) - volumeStart[b])
  ELSE 0

RECURSIVE sumDecoded(_)
sumDecoded(b) == IF b = 0 THEN 0 ELSE decodedFrames(b) + sumDecoded(b - 1)

inFlightFrames == sumDecoded(Len(batchPc))

(***************************************************************************)
(* DICOM decoding on its own: one parsed dataset goes through the          *)
(* reference-frame path or the per-frame path                              *)
(***************************************************************************)
SampleLevels == {0, 100, 240, 1000, 2000, 3000}

WindowCenters == {Absent, Attribute(0), Attribute(40), Attribute(1000)}

WindowWidths == {Absent, Attribute(200), Attribute(400), Attribute(2000)}

Modalities == {"", "CT", "CR", "DX", "MR"}

Datasets ==
  [WindowCenter : WindowCenters, WindowWidth : WindowWidths, Modality : Modalities,
   PixelRepresentation : {0}, PixelData : [1..MaxSamples -> SampleLevels]]

DicomFrozen ==
  UNCHANGED <<jobVars, storeVars, pvVars, imageVars, bgVars, referenceDimensions,
              unitVars, pool, maskBuffer>>

InitDicom ==
  /\ UnitJob
  /\ UnitIdle
  /\ maskData \in JobMasks

\* extractFirstFrame of a DICOM file
DecodeReference ==
  /\ decoded.path = "none"
  /\ \E ds \in Datasets :
       /\ dataset' = ds
       /\ decoded' = extractDicomImage(ds)
  /\ DicomFrozen

\* extractDicomFrame of a multi-frame DICOM file
DecodeFrame ==
  /\ decoded.path = "none"
  /\ \E ds \in Datasets :
       /\ dataset' = ds
       /\ decoded' = processDicomPixelDataHelper(ds)
  /\ DicomFrozen

NextDicom == DecodeReference \/ DecodeFrame

SpecDicom == InitDicom /\ [][NextDicom]_vars

(***************************************************************************)
(* The rasterizer on its own: one mask with a raster payload               *)
(***************************************************************************)
RedMarker == <<255, 0, 0, 255>>

\* the canvas image with the marker drawn on the pixels of drawn
CanvasImage(drawn) ==
  [present |-> TRUE, valid |-> TRUE, width |-> CanvasSide, height |-> CanvasSide,
   data |-> [i \in 1..(CanvasSide * CanvasSide) |->
               IF i \in drawn THEN RedMarker ELSE Transparent]]

\* a payload string that is not a decodable data URL
UndecodablePayload ==
  [present |-> TRUE, valid |-> FALSE, width |-> 0, height |-> 0, data |-> << >>]

Payloads ==
  {CanvasImage(drawn) : drawn \in SUBSET (1..(CanvasSide * CanvasSide))}
    \cup {UndecodablePayload}

ShapeTypes == {"rectangle", "circle", "freeform"}

ShapeCoordinates == {ArrayCoords(0, 0, 1, 1, 2), ArrayCoords(1, 1, 1, 1, 2)}

ShapeOpacities == {50, 100}

DisplayMetadata ==
  {[info |-> NoDisplayInfo, dims |-> NoDimensions],
   [info |-> [present |-> TRUE, scale |-> RInt(1), offsetX |-> RInt(0),
              offsetY |-> RInt(0)],
    dims |-> [present |-> TRUE, width |-> CanvasSide, height |-> CanvasSide]]}

RasterMask(type, coordinates, opacity, payload, display) ==
  [VectorMask(type, coordinates, opacity) EXCEPT
     !.canvasDataUrl = payload,
     !.imageDisplayInfo = display.info,
     !.imageDimensions = display.dims]

InitRaster ==
  /\ UnitJob
  /\ unitPc = "mask"
  /\ \E type \in ShapeTypes, coordinates \in ShapeCoordinates,
        opacity \in ShapeOpacities, payload \in Payloads,
        display \in DisplayMetadata :
       maskData = RasterMask(type, coordinates, opacity, payload, display)
  /\ frameSize = [width |-> MaxSide, height |-> MaxSide]
  /\ tasks = << >>
  /\ volumeResults = << >>
  /\ pixelCoords = [x |-> 0, y |-> 0, width |-> 0, height |-> 0]
  /\ matrix = [scaleX |-> RInt(1), scaleY |-> RInt(1),
               offsetX |-> RInt(0), offsetY |-> RInt(0)]

\* step 2 of processFrameBatch: the opacity buffer of the sub-batch
Rasterize ==
  /\ unitPc = "mask"
  /\ maskBuffer' = createMaskRgbaBuffer(maskData, frameSize.width, frameSize.height)
  /\ unitPc' = "rasterized"
  /\ UNCHANGED <<jobVars, storeVars, pvVars, imageVars, bgVars, pool>>
  /\ UNCHANGED <<referenceDimensions, tasks, volumeResults, frameSize, pixelCoords,
                 matrix, dataset, decoded>>

NextRaster == Rasterize

SpecRaster == InitRaster /\ [][NextRaster]_vars

(***************************************************************************)
(* The raster payload of a letterboxed canvas: the image is shown at its   *)
(* natural size at (offsetX, offsetY) on a larger canvas, and the frame    *)
(* has the image's natural size                                            *)
(***************************************************************************)
\* the canvas bitmap with the marker drawn on the pixels of drawn
LetterboxCanvas(drawn) ==
  [present |-> TRUE, valid |-> TRUE, width |-> LetterboxW, height |-> LetterboxH,
   data |-> [i \in 1..(LetterboxW * LetterboxH) |->
               IF i \in drawn THEN RedMarker ELSE Transparent]]

InitLetterbox ==
  /\ UnitJob
  /\ unitPc = "mask"
  /\ \E drawn \in SUBSET (1..(LetterboxW * LetterboxH)),
        nw \in 1..MaxNatural, nh \in 1..MaxNatural :
       \E ox \in 0..(LetterboxW - nw), oy \in 0..(LetterboxH - nh) :
         /\ maskData =
              [VectorMask("freeform", ArrayCoords(0, 0, 1, 1, 1), 100) EXCEPT
                 !.canvasDataUrl = LetterboxCanvas(drawn),
                 !.originalCanvasDimensions =
                    [present |-> TRUE, width |-> LetterboxW, height |-> LetterboxH],
                 !.imageDimensions =
                    [present |-> TRUE, width |-> nw, height |-> nh],
                 !.imageDisplayInfo =
                    [present |-> TRUE, scale |-> RInt(1),
                     offsetX |-> RInt(ox), offsetY |-> RInt(oy)]]
         /\ frameSize = [width |-> nw, height |-> nh]
  /\ tasks = << >>
  /\ volumeResults = << >>
  /\ pixelCoords = [x |-> 0, y |-> 0, width |-> 0, height |-> 0]
  /\ matrix = [scaleX |-> RInt(1), scaleY |-> RInt(1),
               offsetX |-> RInt(0), offsetY |-> RInt(0)]

NextLetterbox == Rasterize

SpecLetterbox == InitLetterbox /\ [][NextLetterbox]_vars

(***************************************************************************)
(* The partition into batches and sub-batches on its own: any frame count  *)
(* and batch size, batches interleaving                                    *)
(***************************************************************************)
InitBatches ==
  /\ sourceKind = "video"
  /\ \E batchSize \in 1..MaxBatchSize :
       /\ outputSettings = OutputSettings("original", 0, "png", batchSize)
       /\ totalFrames \in 0..Min(MaxPartitionFrames, batchSize * MaxBatches)
  /\ faults = [i \in 0..(totalFrames - 1) |-> "none"]
  /\ maskData \in JobMasks
  /\ jobStatus = "processing"
  /\ bgPc = "done"
  /\ PipelineIdle
  /\ UnitIdle

NextBatches ==
  \/ FlightCreateBatches
  \/ \E b \in DOMAIN batchPc : BatchExtract(b)
  \/ \E b \in DOMAIN batchPc : BatchVolume(b)
  \/ \E b \in DOMAIN batchPc : BatchRecord(b)
  \/ PvBatchesDone

SpecBatches == InitBatches /\ [][NextBatches]_vars

(***************************************************************************)
(* A run with several batches of which one may throw: the other batches    *)
(* keep running while processVideo's catch handles the rejection           *)
(***************************************************************************)
NextAbort ==
  \/ FlightCreateBatches
  \/ \E b \in DOMAIN batchPc : BatchExtract(b)
  \/ \E b \in DOMAIN batchPc : BatchExtractError(b)
  \/ \E b \in DOMAIN batchPc : BatchVolume(b)
  \/ \E b \in DOMAIN batchPc : BatchRecord(b)
  \/ PvBatchesDone
  \/ PvBatchRejected
  \/ PvCatchStatus
  \/ PvCatchProgress

SpecAbort == InitBatches /\ [][NextAbort]_vars

(***************************************************************************)
(* A processVideo run from the process request to completion, with no      *)
(* step that throws: several batches, interleaving, frame files that may   *)
(* be missing                                                              *)
(***************************************************************************)
InitRun ==
  /\ sourceKind = "video"
  /\ \E batchSize \in 1..MaxRunBatchSize :
       /\ outputSettings = OutputSettings("original", 0, "png", batchSize)
       /\ totalFrames \in 1..Min(MaxRunFrames, batchSize * MaxBatches)
  /\ \E missing \in (0 - 1)..(totalFrames - 1) :
       faults = [f \in 0..(totalFrames - 1) |-> IF f = missing THEN "bad" ELSE "ok"]
  /\ maskData \in JobMasks
  /\ jobStatus = "ready"
  /\ bgPc = "done"
  /\ PipelineIdle
  /\ UnitIdle

NextRun ==
  \/ StartProcessing
  \/ PvExtracting
  \/ PvMetadata
  \/ PvAnnounce
  \/ PvCreateBatches
  \/ \E b \in DOMAIN batchPc : BatchExtract(b)
  \/ \E b \in DOMAIN batchPc : BatchVolume(b)
  \/ \E b \in DOMAIN batchPc : BatchRecord(b)
  \/ PvBatchesDone
  \/ PvExporting
  \/ PvZip
  \/ PvCompleted

SpecRun == InitRun /\ [][NextRun]_vars

(***************************************************************************)
(* The worker pool on its own                                              *)
(***************************************************************************)
PoolFrozen ==
  UNCHANGED <<jobVars, storeVars, pvVars, imageVars, bgVars, referenceDimensions,
              unitVars, pureVars>>

InitPool ==
  /\ UnitJob
  /\ UnitIdle
  /\ maskData \in JobMasks

\* mutation of removeListener: the one-time listener is left registered
removeListener_kept(listeners, t) == listeners

\* worker.off('message', handleMessage) for the listener of task t
removeListener(listeners, t) == SelectSeq(listeners, LAMBDA u : u # t)

\* the handleMessage listeners that were registered on worker w when the
\* message was emitted run in order: each removes itself and settles the
\* promise of its own task with the result
RECURSIVE runHandlers(_, _, _, _)
runHandlers(p, w, snapshot, result) ==
  IF snapshot = << >> THEN p
  ELSE LET t == Head(snapshot)
       IN runHandlers([p EXCEPT
                         !.handlers[w] = removeListener(@, t),
                         !.settleCalls[t] = @ + 1,
                         !.delivered[t] = @ \cup {result.frameNumber}],
                      w, Tail(snapshot), result)

\* MaskWorkerPool.processFrame: enqueue and try to dispatch
Submit ==
  /\ pool.submitted < MaxPoolTasks
  /\ pool' = processNextTask([pool EXCEPT
                                !.submitted = @ + 1,
                                !.taskQueue = Append(@, pool.submitted + 1)])
  /\ PoolFrozen

\* the worker thread takes a task and posts its result
WorkerStep(w) ==
  /\ pool.alive[w]
  /\ pool.inbox[w] # << >>
  /\ \E success \in BOOLEAN :
       pool' = [pool EXCEPT
                  !.inbox[w] = Tail(@),
                  !.outbox[w] = Append(@, WorkerResult(WorkerTask(Head(pool.inbox[w])),
                                                       success))]
  /\ PoolFrozen

\* the worker thread throws an uncaught exception: the thread ends, what
\* was posted to it is lost, the main thread will see an 'error' event
WorkerRaise(w) ==
  /\ pool.alive[w]
  /\ pool.state = "open"
  /\ pool.workerErrors < MaxWorkerErrors
  /\ pool' = [pool EXCEPT
                !.alive[w] = FALSE,
                !.inbox[w] = << >>,
                !.errorPending[w] = TRUE,
                !.workerErrors = @ + 1]
  /\ PoolFrozen

\* 'message' from worker w on the main thread: the pool's listener frees
\* the worker and dispatches, then the one-time listeners registered before
\* the event run
MainMessage(w) ==
  /\ pool.outbox[w] # << >>
  /\ LET result == Head(pool.outbox[w])
         snapshot == pool.handlers[w]
         freed == [pool EXCEPT !.outbox[w] = Tail(@),
                               !.busyWorkers = @ \ {w}]
     IN pool' = runHandlers(processNextTask(freed), w, snapshot, result)
  /\ PoolFrozen

\* 'error' from worker w on the main thread
MainError(w) ==
  /\ pool.errorPending[w]
  /\ pool.outbox[w] = << >>
  /\ pool' = processNextTask([pool EXCEPT !.errorPending[w] = FALSE,
                                          !.busyWorkers = @ \ {w}])
  /\ PoolFrozen

\* terminate(): every worker thread is stopped; results already posted may
\* or may not still be delivered
Terminate ==
  /\ pool.state = "open"
  /\ \E keep \in BOOLEAN :
       pool' = [pool EXCEPT
                  !.state = "terminating",
                  !.inFlightAtTerminate =
                     {t \in PoolTasks : pool.dispatchedTo[t] # -1
                                          /\ pool.settleCalls[t] = 0},
                  !.alive = [w \in PoolWorkers |-> FALSE],
                  !.inbox = [w \in PoolWorkers |-> << >>],
                  !.outbox = IF keep THEN @ ELSE [w \in PoolWorkers |-> << >>]]
  /\ PoolFrozen

\* every worker.terminate() promise resolved
TerminateResolved ==
  /\ pool.state = "terminating"
  /\ pool' = [pool EXCEPT !.state = "terminated"]
  /\ PoolFrozen

NextPool ==
  \/ Submit
  \/ \E w \in PoolWorkers : WorkerStep(w)
  \/ \E w \in PoolWorkers : WorkerRaise(w)
  \/ \E w \in PoolWorkers : MainMessage(w)
  \/ \E w \in PoolWorkers : MainError(w)
  \/ Terminate
  \/ TerminateResolved

SpecPool == InitPool /\ [][NextPool]_vars

\* worker threads run and the event loop delivers what was posted
PoolFairness ==
  \A w \in PoolWorkers :
    /\ WF_vars(WorkerStep(w))
    /\ WF_vars(MainMessage(w))
    /\ WF_vars(MainError(w))

SpecPoolLive == InitPool /\ [][NextPool]_vars /\ PoolFairness

(***************************************************************************)
(* Properties                                                              *)
(***************************************************************************)
\* the result list is in the hands of output assembly
HandedToAssembly == pvPc \in {"exporting", "zip", "completedProgress", "done"}

\* C1: for a video job with N frames, the list handed to output assembly has
\* exactly one entry for every frame number 0..N-1, and the entry under a
\* frame number is either an empty placeholder or made from the frame of
\* that number (no later frame shifted onto it).
C1_OneEntryPerFrame ==
  (sourceKind = "video" /\ HandedToAssembly) =>
    /\ Len(processedFrames) = totalFrames
    /\ \A i \in 1..Len(processedFrames) :
         /\ processedFrames[i].frameNumber = i - 1
         /\ \/ BufferLength(processedFrames[i].buffer) = 0
            \/ processedFrames[i].buffer.origin = i - 1

\* C2: whatever order the batches and their sub-batches completed in, the
\* list returned by processBatchesInParallel is strictly ascending by
\* frameNumber (sorted, no frame number twice).
C2_StrictlyAscending ==
  \A i \in 1..Len(processedFrames), j \in 1..Len(processedFrames) :
    i < j => processedFrames[i].frameNumber < processedFrames[j].frameNumber

\* a job of several batches whose results have been returned
C2_SeveralBatchesReturned ==
  /\ pvPc = "exporting"
  /\ Len(batches) >= 2
  /\ Len(processedFrames) >= 2

StatusOrder ==
  <<"uploaded", "extracting", "ready", "processing", "exporting", "completed">>

statusRank(s) == CHOOSE i \in 1..Len(StatusOrder) : StatusOrder[i] = s

\* C3: every change of Job.status is a forward step along uploaded ->
\* extracting -> ready -> processing -> exporting -> completed, or a step to
\* failed; also with background extraction and processing interleaved.
C3_StatusOnlyForward ==
  [][jobStatus' # jobStatus =>
       \/ jobStatus' = "failed"
       \/ /\ \E i \in 1..Len(StatusOrder) : StatusOrder[i] = jobStatus
          /\ \E i \in 1..Len(StatusOrder) : StatusOrder[i] = jobStatus'
          /\ statusRank(jobStatus) < statusRank(jobStatus')]_vars

\* neither processing nor background extraction has a step left to take
HandlersFinished ==
  /\ pvPc \in {"idle", "done", "thrown"}
  /\ bgPc \in {"none", "done", "caught"}

\* C4: after a job-level error in processVideo, processImages or
\* startBackgroundFrameExtraction the job ends with status failed and an
\* errorMessage on the Job, and a progress event carrying the failure was
\* emitted.
C4_JobErrorFailsJob ==
  (HandlersFinished /\ (pvPc = "thrown" \/ bgPc = "caught")) =>
    /\ jobStatus = "failed"
    /\ jobError # "none"
    /\ \E e \in emitted : e.stage \in {"failed", "error"}

\* C5: when one frame of a sub-batch cannot be masked, only that frame is
\* reported failed; every frame keeps its frame number and every other
\* frame of the sub-batch is reported processed.
C5_OnlyThrowingFrameFails ==
  unitPc = "batch" =>
    \A i \in 1..Len(tasks) :
      /\ volumeResults[i].frameNumber = tasks[i].frameNumber
      /\ volumeResults[i].success <=> tasks[i].frameBuffer.valid

\* two frames of the job differ in native width or height
MixedNativeSizes ==
  \E f \in 0..(totalFrames - 1), g \in 0..(totalFrames - 1) :
    LET a == sourceFrame(sourceKind, faults[f], f)
        b == sourceFrame(sourceKind, faults[g], g)
    IN a.valid /\ b.valid /\ (a.width # b.width \/ a.height # b.height)

\* C6: a job whose frames differ in native size does not complete; its
\* status becomes failed.
C6_MismatchFailsJob ==
  MixedNativeSizes =>
    /\ jobStatus # "completed"
    /\ pvPc = "done" => jobStatus = "failed"

\* pixel p of the output of task i keeps / loses its value as the rule
\* `covered` says: colour channels 0 when covered, every channel as in the
\* source when not
compositedAs(i, covered(_)) ==
  LET src == tasks[i].frameBuffer
      out == volumeResults[i].processedBuffer.data
      c == src.channels
      colour == IF c >= 3 THEN 3 ELSE c
  IN \A p \in 0..(src.width * src.height - 1), k \in 0..(c - 1) :
       IF covered(p)
       THEN k < colour => out[p * c + k + 1] = 0
       ELSE out[p * c + k + 1] = src.data[p * c + k + 1]

\* C7: masking changes exactly the masked pixels: a pixel with non-zero
\* mask alpha has its colour channels 0, a pixel with alpha 0 keeps its
\* value; for 1-, 3- and 4-channel frames.
C7_ExactlyMaskedPixels ==
  \A i \in 1..Len(volumeResults) :
    volumeResults[i].success =>
      LET src == tasks[i].frameBuffer
          maskRgba == createMaskRgbaBuffer(tasks[i].maskData, src.width, src.height)
          covered(p) == maskRgba[p + 1][4] > 0
      IN compositedAs(i, covered)

\* C8: after the geometry validation of processFrame the rectangle lies in
\* the frame and has width and height of at least 1, for every input
\* rectangle and every frame of at least 1x1.
C8_ValidatedRectangle ==
  unitPc = "validated" =>
    /\ 0 <= pixelCoords.x
    /\ 0 <= pixelCoords.y
    /\ pixelCoords.x + pixelCoords.width <= frameSize.width
    /\ pixelCoords.y + pixelCoords.height <= frameSize.height
    /\ pixelCoords.width >= 1
    /\ pixelCoords.height >= 1

\* C9: a rectangle mask {x, y, width, height} in pixels, without raster
\* payload and inside the frame, blackens exactly the pixels with
\* x <= px < x+width and y <= py < y+height (stated for the RGB and RGBA
\* frames, whose compositing touches no neighbouring pixel).
C9_AbsoluteRectangle ==
  unitPc = "batch" =>
    \A i \in 1..Len(volumeResults) :
      LET m == tasks[i].maskData
          r == m.coordinates
          src == tasks[i].frameBuffer
          covered(p) ==
            LET px == p % src.width
                py == p \div src.width
            IN r.x <= px /\ px < r.x + r.width /\ r.y <= py /\ py < r.y + r.height
      IN (volumeResults[i].success /\ m.type = "rectangle" /\ ~r.isArray
            /\ ~m.canvasDataUrl.present /\ src.channels >= 3)
           => compositedAs(i, covered)

\* C10: the matrix of calculateTransformationMatrix maps the top-left
\* corner of the displayed image (offsetX, offsetY) to (0, 0) and its
\* bottom-right corner (offsetX + naturalWidth*scale, offsetY +
\* naturalHeight*scale) to (frameWidth, frameHeight).
C10_CornersMapToFrame ==
  unitPc = "matrix" =>
    LET info == maskData.imageDisplayInfo
        dims == maskData.imageDimensions
        topLeft == transformCoordinates(info.offsetX, info.offsetY, matrix)
        bottomRight ==
          transformCoordinates(
            RAdd(info.offsetX, RMul(RInt(dims.width), info.scale)),
            RAdd(info.offsetY, RMul(RInt(dims.height), info.scale)),
            matrix)
    IN /\ REq(topLeft.x, RInt(0))
       /\ REq(topLeft.y, RInt(0))
       /\ REq(bottomRight.x, RInt(frameSize.width))
       /\ REq(bottomRight.y, RInt(frameSize.height))

\* a matrix computed for a letterboxed, scaled image and a frame of another
\* shape
C10_LetterboxedPlacement ==
  /\ unitPc = "matrix"
  /\ maskData.imageDisplayInfo.offsetX.n > 0
  /\ maskData.imageDisplayInfo.offsetY.n > 0
  /\ ~REq(maskData.imageDisplayInfo.scale, RInt(1))
  /\ ~REq(matrix.scaleX, matrix.scaleY)
  /\ ~REq(matrix.scaleX, RInt(1))

\* C11: every task submitted to the pool eventually has its promise
\* settled, also the task that was on a worker when the worker raised an
\* error and the tasks queued or submitted after it (as long as the pool is
\* not terminated).
C11_EveryTaskSettles ==
  \A t \in PoolTasks :
    (pool.submitted >= t) ~> (pool.settleCalls[t] > 0 \/ pool.state # "open")

\* C12: when terminate() has resolved, every task that was dispatched to a
\* worker before the call has had its promise settled.
C12_TerminateAwaitsInFlight ==
  pool.state = "terminated" =>
    \A t \in pool.inFlightAtTerminate : pool.settleCalls[t] > 0

\* the tasks dispatched to worker w whose promise is not settled
inFlightOn(w) ==
  {t \in PoolTasks : pool.dispatchedTo[t] = w /\ pool.settleCalls[t] = 0}

\* C13: tasks are dispatched in submission order, each worker holds at most
\* one dispatched, unanswered task, and at most PoolSize tasks are in
\* flight.
C13_OneTaskPerWorker ==
  /\ \A i \in 1..Len(pool.dispatchOrder) : pool.dispatchOrder[i] = i
  /\ \A w \in PoolWorkers : Cardinality(inFlightOn(w)) <= 1
  /\ Cardinality(UNION {inFlightOn(w) : w \in PoolWorkers}) <= PoolSize

\* C14: the result delivered to the caller of a task is the result of that
\* task, and the caller's promise is settled at most once.
C14_OwnResultOnce ==
  \A t \in PoolTasks :
    /\ pool.settleCalls[t] <= 1
    /\ pool.delivered[t] \subseteq {WorkerTask(t).frameNumber}

\* more tasks than workers were submitted and all of them are settled
C14_WorkersReused ==
  /\ pool.submitted > PoolSize
  /\ \A t \in 1..pool.submitted : pool.settleCalls[t] = 1
  /\ \E t \in PoolTasks, u \in PoolTasks :
       t # u /\ pool.dispatchedTo[t] = pool.dispatchedTo[u]

\* the values the scheduler writes to Job.status
SchedulerStatuses == {"processing", "completed", "failed", "extracting", "ready", "error"}

\* a progress update announcing status s was emitted
announced(s) == \E e \in emitted : e.stage = s

\* no image of the sub-batch starting at vStart fails to load
volumeLoads(vStart) ==
  \A i \in vStart..(Min(vStart + VOLUME_BATCH_SIZE, totalFrames) - 1) : faults[i] # "bad"

\* the handler that wrote status s to the job has not taken its next step
announcing(s) ==
  CASE s = "processing" -> pvPc \in {"announce", "announce10"}
    [] s = "completed" -> pvPc = "completedProgress"
    [] s = "failed" -> pvPc = "catchProgress"
    [] s = "extracting" -> bgPc = "announce"
    [] s = "ready" -> bgPc = "readyProgress"
    [] s = "error" -> bgPc = "catchProgress"

C16_InFlightBounded == inFlightFrames <= VOLUME_BATCH_SIZE

\* C17: in both decode paths, with an explicit window center and width (a
\* center of 0 included), each output byte is 0 for a sample at or below
\* center - width/2, 255 for a sample at or above center + width/2, and the
\* rounded linear interpolation in between.
C17_ExplicitWindowApplied ==
  (decoded.path # "none" /\ dataset.WindowCenter.present /\ dataset.WindowWidth.present)
    => \A i \in 1..Len(decoded.pixels) :
         LET c == dataset.WindowCenter.value
             w == dataset.WindowWidth.value
             v == dataset.PixelData[i]
         IN decoded.pixels[i] =
              IF 2 * v <= 2 * c - w THEN 0
              ELSE IF 2 * v >= 2 * c + w THEN 255
              ELSE ((2 * v - (2 * c - w)) * 255 + w) \div (2 * w)

\* C18: in both decode paths the window of a 16-bit frame is the explicit
\* center/width if present, else the modality default (CT 40/400, CR and DX
\* 1000/2000), else the minimum and maximum of the samples.
C18_WindowPriority ==
  decoded.path # "none" =>
    decoded.window =
      IF dataset.WindowCenter.present /\ dataset.WindowWidth.present
      THEN [min2 |-> 2 * dataset.WindowCenter.value - dataset.WindowWidth.value,
            max2 |-> 2 * dataset.WindowCenter.value + dataset.WindowWidth.value]
      ELSE IF dataset.Modality = "CT" THEN [min2 |-> 80 - 400, max2 |-> 80 + 400]
      ELSE IF dataset.Modality \in {"CR", "DX"} THEN [min2 |-> 0, max2 |-> 4000]
      ELSE [min2 |-> 2 * minOf(dataset.PixelData), max2 |-> 2 * maxOf(dataset.PixelData)]

\* the masks that differ from maskData only in shape type, vector
\* coordinates and opacity
sameRasterInput ==
  {[maskData EXCEPT !.type = type, !.coordinates = coordinates, !.opacity = opacity] :
     type \in ShapeTypes, coordinates \in ShapeCoordinates, opacity \in ShapeOpacities}

\* C19: for a mask with a raster payload the opacity buffer is the same for
\* every mask with that payload and display metadata, whatever its shape
\* type, vector coordinates and opacity; with an undecodable payload it is
\* fully transparent (the vector shape is not drawn instead).
C19_PayloadAuthoritative ==
  (unitPc = "rasterized" /\ maskData.canvasDataUrl.present)
    => /\ \A other \in sameRasterInput :
            createMaskRgbaBuffer(other, frameSize.width, frameSize.height) = maskBuffer
       /\ ~maskData.canvasDataUrl.valid
            => \A i \in 1..Len(maskBuffer) : maskBuffer[i] = Transparent

\* an undecodable payload was rasterized for a mask whose vector rectangle
\* covers part of the frame
C19_UndecodableRasterized ==
  /\ unitPc = "rasterized"
  /\ maskData.canvasDataUrl.present
  /\ ~maskData.canvasDataUrl.valid
  /\ maskData.type = "rectangle"
  /\ Len(maskBuffer) = MaxSide * MaxSide
  /\ \E px \in 0..(MaxSide - 1), py \in 0..(MaxSide - 1) :
       rectangleCovers(maskData, MaxSide, MaxSide, px, py)

C21_OneEntryPerImage ==
  (sourceKind = "images" /\ HandedToAssembly) =>
    \A k \in 0..(totalFrames - 1) :
      Cardinality({i \in 1..Len(processedImages) :
                     processedImages[i].imageNumber = k}) = 1

\* C22: the batches are inclusive ranges in ascending order, contiguous and
\* non-overlapping, starting at 0 and covering exactly 0..totalFrames-1,
\* each of at most batchSize frames and only the last one of fewer; the
\* sub-batches of a batch take its decoded frames in order, each exactly
\* once, at most 8 per sub-batch.
C22_BatchesPartitionFrames ==
  /\ [](pvPc # "idle" =>
          LET n == Len(batches)
              batchSize == outputSettings.batchSize
          IN /\ (n = 0) <=> (totalFrames = 0)
             /\ n > 0 => (batches[1].start = 0 /\ batches[n].end = totalFrames - 1)
             /\ \A k \in 1..n :
                  /\ batches[k].start <= batches[k].end
                  /\ batches[k].end - batches[k].start + 1 <= batchSize
                  /\ k < n => /\ batches[k].end - batches[k].start + 1 = batchSize
                              /\ batches[k + 1].start = batches[k].end + 1
             /\ \A b \in DOMAIN batchResults :
                  /\ Len(batchResults[b]) = Min(volumeStart[b], Len(frameBuffers[b]))
                  /\ \A i \in 1..Len(batchResults[b]) :
                       batchResults[b][i].frameNumber = batches[b].start + i - 1
                  /\ batchPc[b] \in {"record", "done"} =>
                       Len(batchResults[b]) = batches[b].end - batches[b].start + 1)
  /\ [][\A b \in DOMAIN batchResults :
          b \in DOMAIN batchResults' =>
            Len(batchResults'[b]) - Len(batchResults[b]) \in 0..VOLUME_BATCH_SIZE]_vars

\* a batch of more than 8 frames went through two sub-batches, next to a
\* shorter last batch
C22_BatchSplitInSubBatches ==
  /\ Len(batches) >= 2
  /\ batches[Len(batches)].end - batches[Len(batches)].start + 1 < outputSettings.batchSize
  /\ \E b \in DOMAIN batchPc :
       /\ batchPc[b] = "done"
       /\ Len(batchResults[b]) > VOLUME_BATCH_SIZE

\* the frame pixel the Transformation Matrix sends canvas pixel (cx, cy) to
matrixTarget(cx, cy) ==
  LET m == calculateTransformationMatrix(maskData, frameSize.width, frameSize.height)
      t == transformCoordinates(RInt(cx), RInt(cy), m)
  IN [x |-> FloorDiv(t.x.n, t.x.d), y |-> FloorDiv(t.y.n, t.y.d)]

markedOnCanvas(cx, cy) ==
  maskData.canvasDataUrl.data[cy * maskData.canvasDataUrl.width + cx + 1] = RedMarker

\* C23: with a raster payload and a placement with a non-zero offset, the
\* opacity-buffer pixel (px, py) is opaque exactly when some marked canvas
\* pixel is sent to (px, py) by the Transformation Matrix, so that marks in
\* the letterbox bars mask no frame pixel.
C23_PayloadFollowsMatrix ==
  (/\ unitPc = "rasterized"
   /\ maskData.canvasDataUrl.present /\ maskData.canvasDataUrl.valid
   /\ maskData.imageDisplayInfo.present /\ maskData.imageDimensions.present
   /\ \/ maskData.imageDisplayInfo.offsetX.n # 0
      \/ maskData.imageDisplayInfo.offsetY.n # 0) =>
    \A px \in 0..(frameSize.width - 1), py \in 0..(frameSize.height - 1) :
      (maskBuffer[py * frameSize.width + px + 1][4] > 0) <=>
        \E cx \in 0..(maskData.canvasDataUrl.width - 1),
           cy \in 0..(maskData.canvasDataUrl.height - 1) :
          markedOnCanvas(cx, cy) /\ matrixTarget(cx, cy) = [x |-> px, y |-> py]

\* the content encoding an archive entry with this file extension has
encodingOfExtension(format) == IF format = "jpg" THEN "jpeg" ELSE format

\* C24: every successful FrameResult buffer, of the sub-batch path and of
\* the single-frame path, and so every archive entry, is encoded in the
\* format named by outputSettings.format.
C24_EncodedAsRequested ==
  /\ \A b \in DOMAIN batchResults : \A i \in 1..Len(batchResults[b]) :
       batchResults[b][i].success =>
         batchResults[b][i].processedBuffer.format =
           encodingOfExtension(outputSettings.format)
  /\ \A i \in 1..Len(processedFrames) :
       BufferLength(processedFrames[i].buffer) > 0 =>
         processedFrames[i].buffer.format = encodingOfExtension(outputSettings.format)
  /\ \A i \in 1..Len(processedImages) :
       BufferLength(processedImages[i].buffer) > 0 =>
         processedImages[i].buffer.format = encodingOfExtension(outputSettings.format)

\* C25: there is one batch-status record per batch; the record of a batch
\* whose sub-batches have all finished and whose status update has run is
\* completed, and when the job is completed every record is completed.
C25_BatchRecordsCompleted ==
  /\ pvPc # "idle" /\ sourceKind = "video" /\ batchPc # << >> =>
       DOMAIN frameBatches = DOMAIN batches
  /\ \A b \in DOMAIN batchPc :
       batchPc[b] = "done" => frameBatches[b] = "completed"
  /\ jobStatus = "completed" =>
       \A b \in DOMAIN frameBatches : frameBatches[b] = "completed"

\* C26: the outcome of a frame other than frame 0 is decided by the
\* dimensions of frame 0 of its own job: it succeeds exactly when it has
\* that frame's width and height, whatever frames of the other job were
\* processed in between.
C26_JobsDoNotInterfere ==
  \A i \in 1..Len(volumeResults) :
    tasks[i].frameNumber # 0 =>
      LET own == CHOOSE j \in 1..i :
                   tasks[j].jobId = tasks[i].jobId /\ tasks[j].frameNumber = 0
      IN volumeResults[i].success <=>
           (/\ tasks[i].frameBuffer.width = tasks[own].frameBuffer.width
            /\ tasks[i].frameBuffer.height = tasks[own].frameBuffer.height)

\* the pixels of frame f masked with the opacity buffer rasterized at the
\* frame's own native width and height
maskedAtNativeSize(f) ==
  LET src == sourceFrame(sourceKind, faults[f], f)
      meta == frameMetadataOf(src)
  IN applyMaskToPixels(src.data,
                       createMaskRgbaBuffer(maskData, meta.width, meta.height),
                       meta.width * meta.height, meta.channels)

\* C27: every processed image of an image job holds the pixels of its own
\* source image masked with a buffer rasterized at that image's native
\* size, and has that native size when the output is not resized; the
\* first frame's buffer and dimensions are not applied to the others.
C27_MaskedAtOwnSize ==
  sourceKind = "images" =>
    \A i \in 1..Len(processedImages) :
      LET e == processedImages[i]
          src == sourceFrame(sourceKind, faults[e.imageNumber], e.imageNumber)
      IN BufferLength(e.buffer) > 0 =>
           /\ e.buffer.data = maskedAtNativeSize(e.imageNumber)
           /\ ~e.buffer.resized =>
                (e.buffer.width = src.width /\ e.buffer.height = src.height)

\* the run has failed: the job is failed and the failed progress event
\* has been stored and emitted
RunFailed ==
  jobStatus = "failed" /\ pvPc = "thrown" /\ lastEmitted.stage = "failed"

\* C28: once the run has failed, no step changes the stored progress or
\* emits a progress event.
C28_QuietAfterFailure ==
  [][RunFailed => UNCHANGED <<progress, emitted, lastEmitted>>]_vars

RLe(a, b) == a.n * b.d <= b.n * a.d

\* frames that have been through processFrameBatch so far
RECURSIVE processedSoFar(_)
processedSoFar(results) ==
  IF results = << >> THEN 0 ELSE Len(Head(results)) + processedSoFar(Tail(results))

\* C29: in a run that does not fail the emitted percent is 5, 10, a value
\* in [10, 90] or 100 and never below an earlier emitted percent; an emitted
\* currentFrame is never below an earlier one, never above the job's total
\* frame count, and is the number of frames processed so far.
C29_ProgressMonotone ==
  /\ [](\A e \in emitted :
          /\ \/ e.progress = RInt(5)
             \/ RLe(RInt(10), e.progress) /\ RLe(e.progress, RInt(90))
             \/ e.progress = RInt(100)
          /\ e.currentFrame <= totalFrames)
  /\ [][lastEmitted' # lastEmitted =>
          /\ \A e \in emitted : RLe(e.progress, lastEmitted'.progress)
          /\ lastEmitted'.currentFrame >= 0 =>
               /\ \A e \in emitted : e.currentFrame <= lastEmitted'.currentFrame
               /\ lastEmitted'.currentFrame = processedSoFar(batchResults')]_vars

\* a completed run of several batches that reported progress strictly
\* between 10 and 90 for more than one frame count
C29_RunCompletedInSteps ==
  /\ pvPc = "done" /\ jobStatus = "completed"
  /\ Len(batches) >= 2
  /\ lastEmitted.progress = RInt(100)
  /\ Cardinality({e.currentFrame : e \in {x \in emitted : x.currentFrame > 0}}) >= 2

\* C30: when the archive of a video or DICOM job has been written, the
\* output width and height of the rows of metadata.csv are the output size
\* the job's frames were processed with, and every successfully processed
\* frame has that width and height.
C30_CsvSizeIsUsedSize ==
  (sourceKind # "images" /\ pvPc \in {"completedProgress", "done"}) =>
    /\ csvOutputSize(outputSettings) = outputSizeOf(outputSettings, FrameW, FrameH)
    /\ \A i \in 1..Len(processedFrames) :
         BufferLength(processedFrames[i].buffer) > 0 =>
           /\ processedFrames[i].buffer.width = csvOutputSize(outputSettings).width
           /\ processedFrames[i].buffer.height = csvOutputSize(outputSettings).height

====
